---- MODULE Spec2Model ----
(***************************************************************************)
(* Verification model of cosmo (OSM PBF -> GeoJSON/GeoParquet extractor).  *)
(*                                                                         *)
(* Part 1: the node coordinate store (src/src/storage/mod.rs): the three   *)
(*         backends, the f64 -> i32 fixed-point conversion and its         *)
(*         inverse, the sparse binary search.                              *)
(* Part 2: the two-pass pipeline driver (src/src/app/mod.rs): decoder      *)
(*         workers, bounded channel, writer thread, join and error         *)
(*         precedence, process_pbf sequencing.                             *)
(***************************************************************************)
EXTENDS Integers, Sequences, FiniteSets, TLC

(***************************************************************************)
(* Arbitrary-size naturals.  f64 mantissas (53 bits) and their products do *)
(* not fit TLC's 32-bit integers, so the IEEE-754 arithmetic below works   *)
(* on little-endian sequences: bits for alignment and rounding, base-16    *)
(* digits for the arithmetic itself.                                       *)
(***************************************************************************)
Zeros(k) == [i \in 1..k |-> 0]

Bit(b, i) == IF i >= 1 /\ i <= Len(b) THEN b[i] ELSE 0

\* number of significant bits
BitLen(b) ==
    IF \A i \in 1..Len(b) : b[i] = 0 THEN 0
    ELSE CHOOSE i \in 1..Len(b) : b[i] = 1 /\ \A j \in (i + 1)..Len(b) : b[j] = 0

Trim(b) == SubSeq(b, 1, BitLen(b))

BitsToDigits(b) ==
    [j \in 1..((Len(b) + 3) \div 4) |->
        Bit(b, 4 * j - 3) + 2 * Bit(b, 4 * j - 2)
            + 4 * Bit(b, 4 * j - 1) + 8 * Bit(b, 4 * j)]

DigitsToBits(d) ==
    Trim([i \in 1..(4 * Len(d)) |->
            LET dg == d[((i - 1) \div 4) + 1]
                k  == (i - 1) % 4
            IN  (dg \div (IF k = 0 THEN 1 ELSE IF k = 1 THEN 2
                          ELSE IF k = 2 THEN 4 ELSE 8)) % 2])

RECURSIVE NatToDigits(_)
NatToDigits(n) == IF n = 0 THEN <<>> ELSE <<n % 16>> \o NatToDigits(n \div 16)

\* value of the digits d[i..Len(d)], for results that fit an i32
RECURSIVE DigitsFrom(_, _)
DigitsFrom(d, i) == IF i > Len(d) THEN 0 ELSE d[i] + 16 * DigitsFrom(d, i + 1)

BitsToNat(b) == DigitsFrom(BitsToDigits(b), 1)

Digit(d, i) == IF i <= Len(d) THEN d[i] ELSE 0

\* a + b + c from digit i upwards
RECURSIVE AddC(_, _, _, _)
AddC(a, b, i, c) ==
    IF i > Len(a) /\ i > Len(b) THEN (IF c = 0 THEN <<>> ELSE <<c>>)
    ELSE LET s == Digit(a, i) + Digit(b, i) + c
         IN  <<s % 16>> \o AddC(a, b, i + 1, s \div 16)

AddBits(a, b) == DigitsToBits(AddC(BitsToDigits(a), BitsToDigits(b), 1, 0))

\* a - b - w from digit i upwards, for a >= b
RECURSIVE SubB(_, _, _, _)
SubB(a, b, i, w) ==
    IF i > Len(a) THEN <<>>
    ELSE LET d == a[i] - Digit(b, i) - w
         IN  <<d % 16>> \o SubB(a, b, i + 1, IF d < 0 THEN 1 ELSE 0)

SubBits(a, b) == DigitsToBits(SubB(BitsToDigits(a), BitsToDigits(b), 1, 0))

\* -1, 0, 1 as a < b, a = b, a > b
CmpBits(a, b) ==
    LET x == Trim(a)
        y == Trim(b)
    IN  IF Len(x) > Len(y) THEN 1
        ELSE IF Len(x) < Len(y) THEN -1
        ELSE IF x = y THEN 0
        ELSE LET i == CHOOSE k \in 1..Len(x) :
                          x[k] # y[k] /\ \A j \in (k + 1)..Len(x) : x[j] = y[j]
             IN  IF x[i] > y[i] THEN 1 ELSE -1

\* a[i..] * n + c for a small multiplier n (n <= 10^8)
RECURSIVE MulStep(_, _, _, _)
MulStep(a, i, n, c) ==
    IF i > Len(a) THEN NatToDigits(c)
    ELSE LET t == a[i] * n + c
         IN  <<t % 16>> \o MulStep(a, i + 1, n, t \div 16)

MulBits(a, n) == DigitsToBits(MulStep(BitsToDigits(a), 1, n, 0))

\* Long division of the digits a[1..i] (most significant first) by the small
\* divisor n (n <= 10^8), carrying remainder r; q is most significant first.
RECURSIVE DivStep(_, _, _, _)
DivStep(a, i, r, n) ==
    IF i = 0 THEN [q |-> <<>>, r |-> r]
    ELSE LET t    == 16 * r + a[i]
             rest == DivStep(a, i - 1, t % n, n)
         IN  [q |-> <<t \div n>> \o rest.q, r |-> rest.r]

Reverse(q) == [i \in 1..Len(q) |-> q[Len(q) + 1 - i]]

DivBits(a, n) ==
    LET d   == BitsToDigits(a)
        res == DivStep(d, Len(d), 0, n)
    IN  [q |-> DigitsToBits(Reverse(res.q)), r |-> res.r]

\* b + 1 on exactly Len(b) bits, or on Len(b) + 1 bits when b is all ones
Increment(b) ==
    IF \A i \in 1..Len(b) : b[i] = 1 THEN Zeros(Len(b)) \o <<1>>
    ELSE LET z == CHOOSE i \in 1..Len(b) :
                      b[i] = 0 /\ \A j \in 1..(i - 1) : b[j] = 1
         IN  [i \in 1..Len(b) |-> IF i < z THEN 0 ELSE IF i = z THEN 1 ELSE b[i]]

(***************************************************************************)
(* IEEE-754 binary64 values: sign s (-1, 0, 1), mantissa m (exactly 53     *)
(* bits, top bit set; <<>> for zero), exponent e; the value is             *)
(* s * m * 2^e.  Subnormals, infinities and NaN lie outside the magnitudes *)
(* the store handles here (1e-8 .. 1e10) and are not modelled.             *)
(***************************************************************************)
F64Zero == [s |-> 0, m |-> <<>>, e |-> 0]

\* Round-to-nearest-even of s * bits * 2^e (sticky: a non-zero tail below
\* the lowest bit was already discarded) to a normalised binary64.
RoundToF64(s, bits, e, sticky) ==
    LET b == Trim(bits)
        L == Len(b)
        P == 53
    IN  IF L = 0 THEN F64Zero
        ELSE IF L <= P
             THEN [s |-> s, m |-> Zeros(P - L) \o b, e |-> e - (P - L)]
        ELSE LET drop    == L - P
                 kept    == SubSeq(b, drop + 1, L)
                 half    == b[drop]
                 low     == sticky \/ \E i \in 1..(drop - 1) : b[i] = 1
                 roundUp == half = 1 /\ (low \/ kept[1] = 1)
                 up      == Increment(kept)
             IN  IF ~roundUp THEN [s |-> s, m |-> kept, e |-> e + drop]
                 ELSE IF Len(up) > P
                      THEN [s |-> s, m |-> SubSeq(up, 2, P + 1), e |-> e + drop + 1]
                 ELSE [s |-> s, m |-> up, e |-> e + drop]

\* magnitude of an i32 (also of i32::MIN, whose negation overflows)
AbsBits(k) ==
    IF k >= 0 THEN DigitsToBits(NatToDigits(k))
    ELSE AddBits(DigitsToBits(NatToDigits(-(k + 1))), <<1>>)

Sign(k) == IF k > 0 THEN 1 ELSE IF k < 0 THEN -1 ELSE 0

\* `k as f64` for an i32 k: exact
IntToF64(k) == RoundToF64(Sign(k), AbsBits(k), 0, FALSE)

\* x * n in binary64 for a positive integer n that is itself a binary64
F64MulInt(x, n) == RoundToF64(x.s, MulBits(x.m, n), x.e, FALSE)

\* x / n in binary64 for a positive integer n that is itself a binary64
F64DivInt(x, n) ==
    IF x.s = 0 THEN F64Zero
    ELSE LET S   == 32
             res == DivBits(Zeros(S) \o x.m, n)
         IN  RoundToF64(x.s, res.q, x.e - S, res.r # 0)

\* `x as i32`: truncation toward zero, saturating at the i32 range
F64AsI32(x) ==
    IF x.s = 0 THEN 0
    ELSE LET mag == IF x.e >= 0 THEN Zeros(x.e) \o x.m
                    ELSE IF -x.e >= Len(x.m) THEN <<>>
                    ELSE SubSeq(x.m, 1 - x.e, Len(x.m))
         IN  IF Len(mag) >= 32
             THEN (IF x.s > 0 THEN 2147483647 ELSE -2147483647 - 1)
             ELSE x.s * BitsToNat(mag)

\* The f64 a Rust decimal literal n * 10^-p denotes (the nearest binary64).
RECURSIVE Pow10(_)
Pow10(p) == IF p = 0 THEN 1 ELSE 10 * Pow10(p - 1)

LitImpl(c) == F64DivInt(IntToF64(c[1]), Pow10(c[2]))

\* input coordinates <<lat, lon>>, each a decimal literal <<n, p>> = n * 10^-p
\* (51.5073509, -0.1277583 and 139.6503106 are taken from storage::tests)
CoordA == << <<515073509, 7>>, <<-1277583, 7>> >>
CoordB == << <<3544573, 7>>, <<1396503106, 7>> >>
\* a longitude of 200 degrees, beyond the +-180 degrees of a coordinate
CoordC == << <<515073509, 7>>, <<200, 0>> >>

Coords == {CoordA, CoordB, CoordC}

InputLits == UNION { {c[1], c[2]} : c \in Coords }

\* The conversions of the inputs are evaluated once, for the initial state, and
\* looked up afterwards: conv holds, per input, the value the operators
\* LitImpl, ToFixedImpl and FromFixedImpl compute.  It never changes.
VARIABLE conv

LitMemo == [c \in InputLits |-> LitImpl(c)]

Lit(c) == conv.lit[c]

\* exact test |x - d| < 10^-tol for two binary64 values
WithinTol(x, d, tol) ==
    LET e0   == IF x.e < d.e THEN x.e ELSE d.e
        A    == IF x.s = 0 THEN <<>> ELSE Zeros(x.e - e0) \o x.m
        B    == IF d.s = 0 THEN <<>> ELSE Zeros(d.e - e0) \o d.m
        diff == IF x.s * d.s < 0 THEN AddBits(A, B)
                ELSE IF CmpBits(A, B) >= 0 THEN SubBits(A, B) ELSE SubBits(B, A)
    IN  IF e0 >= 0 THEN BitLen(diff) = 0
        ELSE CmpBits(MulBits(diff, Pow10(tol)), Zeros(-e0) \o <<1>>) < 0

(***************************************************************************)
(* Part 1.  Node coordinate store, src/src/storage/mod.rs                  *)
(***************************************************************************)
NODE_SIZE == 8
SPARSE_ENTRY_SIZE == 16
SCALE_FACTOR == 10000000

None == [some |-> FALSE]
Some(v) == [some |-> TRUE, v |-> v]
\* the outcome of a call that panics (a slice index out of range)
Panic == [some |-> FALSE, panic |-> TRUE]

Ok(v) == [ok |-> TRUE, v |-> v]
Err(v, msg) == [ok |-> FALSE, v |-> v, err |-> msg]

\* i32::to_le_bytes: the two's complement image, least significant byte first
I32ToLeBytes(v) ==
    LET v1 == v \div 256
        v2 == v1 \div 256
        v3 == v2 \div 256
    IN  <<v % 256, v1 % 256, v2 % 256, v3 % 256>>

\* i32::from_le_bytes
I32FromLeBytes(b) ==
    LET top == IF b[4] >= 128 THEN b[4] - 256 ELSE b[4]
    IN  ((top * 256 + b[3]) * 256 + b[2]) * 256 + b[1]

\* u64::to_le_bytes, for the ids of the model (below 2^31)
U64ToLeBytes(id) ==
    LET v1 == id \div 256
        v2 == v1 \div 256
        v3 == v2 \div 256
    IN  <<id % 256, v1 % 256, v2 % 256, v3 % 256, 0, 0, 0, 0>>

\* u64::from_le_bytes, for the ids of the model (below 2^31)
U64FromLeBytes(b) == ((b[4] * 256 + b[3]) * 256 + b[2]) * 256 + b[1]

\* (deg * SCALE_FACTOR) as i32
ToFixedImpl(deg) == F64AsI32(F64MulInt(deg, SCALE_FACTOR))

ToFixedMemo == [deg \in {LitMemo[c] : c \in InputLits} |-> ToFixedImpl(deg)]

ToFixed(deg) == conv.to_fixed[deg]

\* fixed as f64 / SCALE_FACTOR
FromFixedImpl(fixed) == F64DivInt(IntToF64(fixed), SCALE_FACTOR)

FromFixedMemo ==
    [fixed \in {ToFixedMemo[deg] : deg \in DOMAIN ToFixedMemo} \cup {0} |->
        FromFixedImpl(fixed)]

FromFixed(fixed) == conv.from_fixed[fixed]

ConvInit ==
    conv = [lit |-> LitMemo, to_fixed |-> ToFixedMemo, from_fixed |-> FromFixedMemo]

\* The packed i64 is kept as its 8-byte little-endian image (it exceeds
\* TLC's integers): (lon_fixed << 32) occupies bytes 5..8, and
\* (lat_fixed & 0xFFFFFFFF) bytes 1..4.
pack_coords(lat, lon) ==
    LET lat_fixed == ToFixed(lat)
        lon_fixed == ToFixed(lon)
    IN  I32ToLeBytes(lat_fixed) \o I32ToLeBytes(lon_fixed)

unpack_coords(packed) ==
    LET lon_fixed == I32FromLeBytes(SubSeq(packed, 5, 8))
        lat_fixed == I32FromLeBytes(SubSeq(packed, 1, 4))
    IN  <<FromFixed(lon_fixed), FromFixed(lat_fixed)>>

decode_coords(data) ==
    LET lon_fixed == I32FromLeBytes(SubSeq(data, 1, 4))
        lat_fixed == I32FromLeBytes(SubSeq(data, 5, 8))
    IN  <<FromFixed(lon_fixed), FromFixed(lat_fixed)>>

write_sparse_entry(file, id, packed) == file \o U64ToLeBytes(id) \o packed

\* ---- constructors ----
new_sparse ==
    [kind |-> "Sparse", file |-> <<>>, count |-> 0, last_id |-> None,
     is_sorted |-> TRUE]

new_dense_temp(max_nodes) ==
    [kind |-> "Dense", mmap |-> Zeros(max_nodes * NODE_SIZE), max_nodes |-> max_nodes]

new_memory == [kind |-> "Memory", nodes |-> <<>>]

\* ---- SparseNodeStoreWriter ----
\* (variant: an id equal to the previous one is rejected as well)
SparsePut_RejectEqual(store, id, lat, lon) ==
    LET packed == pack_coords(lat, lon)
    IN  IF store.last_id.some /\ id <= store.last_id.v
        THEN Err([store EXCEPT !.is_sorted = FALSE], "UnsortedIds")
        ELSE Ok([store EXCEPT !.last_id = Some(id),
                              !.count = store.count + 1,
                              !.file = write_sparse_entry(store.file, id, packed)])

SparsePut(store, id, lat, lon) ==
    LET packed == pack_coords(lat, lon)
    IN  IF store.last_id.some /\ id < store.last_id.v
        THEN Err([store EXCEPT !.is_sorted = FALSE], "UnsortedIds")
        ELSE Ok([store EXCEPT !.last_id = Some(id),
                              !.count = store.count + 1,
                              !.file = write_sparse_entry(store.file, id, packed)])

SparseFinalize(store) ==
    LET file_len   == Len(store.file)
        file_count == file_len \div SPARSE_ENTRY_SIZE
    IN  IF ~store.is_sorted THEN Err(None, "UnsortedIds")
        ELSE IF file_len % SPARSE_ENTRY_SIZE # 0 THEN Err(None, "Unaligned")
        ELSE IF file_count # store.count THEN Err(None, "CountMismatch")
        ELSE Ok([kind |-> "Sparse", mmap |-> store.file, count |-> store.count])

\* ---- SparseNodeStoreReader: binary search over the mapped entries ----
RECURSIVE SparseSearch(_, _, _, _)
SparseSearch(store, id, low, high) ==
    IF ~(low < high) THEN None
    ELSE LET mid    == low + (high - low) \div 2
             offset == mid * SPARSE_ENTRY_SIZE
             data   == SubSeq(store.mmap, offset + 1, offset + SPARSE_ENTRY_SIZE)
             mid_id == U64FromLeBytes(SubSeq(data, 1, 8))
             packed == SubSeq(data, 9, 16)
         IN  IF offset + SPARSE_ENTRY_SIZE > Len(store.mmap) THEN Panic
             ELSE IF mid_id < id THEN SparseSearch(store, id, mid + 1, high)
             ELSE IF mid_id > id THEN SparseSearch(store, id, low, mid)
             ELSE Some(unpack_coords(packed))

\* (variant: the search range includes the slot after the last entry)
SparseGet_HighInclusive(store, id) == SparseSearch(store, id, 0, store.count + 1)

SparseGet(store, id) == SparseSearch(store, id, 0, store.count)

\* ---- DenseNodeStoreWriter / Reader ----
DensePut(store, id, lat, lon) ==
    IF id >= store.max_nodes THEN Err(store, "OverCapacity")
    ELSE LET offset    == id * NODE_SIZE
             lat_fixed == ToFixed(lat)
             lon_fixed == ToFixed(lon)
             data      == I32ToLeBytes(lon_fixed) \o I32ToLeBytes(lat_fixed)
         IN  IF offset + NODE_SIZE > Len(store.mmap) THEN Err(store, "Panic")
             ELSE Ok([store EXCEPT !.mmap =
                    [i \in 1..Len(store.mmap) |->
                        IF i > offset /\ i <= offset + NODE_SIZE
                        THEN data[i - offset] ELSE store.mmap[i]]])

DenseFinalize(store) ==
    Ok([kind |-> "Dense", mmap |-> store.mmap, max_nodes |-> store.max_nodes])

\* (variant: the capacity test is off by one)
DenseGet_OffByOne(store, id) ==
    IF id > store.max_nodes THEN None
    ELSE LET offset == id * NODE_SIZE
             data   == SubSeq(store.mmap, offset + 1, offset + NODE_SIZE)
         IN  IF offset + NODE_SIZE > Len(store.mmap) THEN Panic
             ELSE Some(decode_coords(data))

DenseGet(store, id) ==
    IF id >= store.max_nodes THEN None
    ELSE LET offset == id * NODE_SIZE
             data   == SubSeq(store.mmap, offset + 1, offset + NODE_SIZE)
         IN  IF offset + NODE_SIZE > Len(store.mmap) THEN Panic
             ELSE Some(decode_coords(data))

\* ---- MemoryNodeStore: nodes is the HashMap, a function on the inserted ids
MemoryPut(store, id, lat, lon) ==
    LET lat_fixed == ToFixed(lat)
        lon_fixed == ToFixed(lon)
    IN  Ok([store EXCEPT !.nodes =
               [k \in (DOMAIN store.nodes) \cup {id} |->
                   IF k = id THEN <<lon_fixed, lat_fixed>> ELSE store.nodes[k]]])

MemoryGet(store, id) ==
    IF id \notin DOMAIN store.nodes THEN None
    ELSE Some(<<FromFixed(store.nodes[id][1]), FromFixed(store.nodes[id][2])>>)

\* ---- facade: NodeStoreWriter / NodeStoreReader ----
put(store, id, lat, lon) ==
    CASE store.kind = "Sparse" -> SparsePut(store, id, lat, lon)
      [] store.kind = "Dense"  -> DensePut(store, id, lat, lon)
      [] store.kind = "Memory" -> MemoryPut(store, id, lat, lon)

finalize(store) ==
    CASE store.kind = "Sparse" -> SparseFinalize(store)
      [] store.kind = "Dense"  -> DenseFinalize(store)
      [] store.kind = "Memory" -> Ok([kind |-> "Memory", nodes |-> store.nodes])

get(store, id) ==
    CASE store.kind = "Sparse" -> SparseGet(store, id)
      [] store.kind = "Dense"  -> DenseGet(store, id)
      [] store.kind = "Memory" -> MemoryGet(store, id)

(***************************************************************************)
(* Store harness: the three backends are fed the same put calls, then      *)
(* finalized, then queried (as storage::tests::all_stores_produce_same_    *)
(* results does).  A put that returns Err leaves the writer usable, as the *)
(* &mut self signature does.                                               *)
(***************************************************************************)
MaxPuts == 3
MaxNodeId == 2
DenseMaxNodes == 2

Backends == {"Sparse", "Dense", "Memory"}
NodeIds == 0..MaxNodeId

VARIABLES
    writers,    \* the NodeStoreWriter of each backend
    readers,    \* the result of finalize of each backend
    phase,      \* "Writing" or "Finalized"
    trace,      \* the put calls made so far, with each backend's outcome
    got         \* the last get call: its id and each backend's result

storeVars == <<writers, readers, phase, trace, got>>

StoreInit ==
    /\ writers = [k \in Backends |->
                    CASE k = "Sparse" -> new_sparse
                      [] k = "Dense"  -> new_dense_temp(DenseMaxNodes)
                      [] k = "Memory" -> new_memory]
    /\ readers = [k \in Backends |-> Err(None, "NotFinalized")]
    /\ phase = "Writing"
    /\ trace = <<>>
    /\ got = None

StorePut(id, c) ==
    /\ phase = "Writing"
    /\ Len(trace) < MaxPuts
    /\ LET res == [k \in Backends |-> put(writers[k], id, Lit(c[1]), Lit(c[2]))]
       IN  /\ writers' = [k \in Backends |-> res[k].v]
           /\ trace' = Append(trace,
                  [id |-> id, lat |-> c[1], lon |-> c[2],
                   ok |-> [k \in Backends |-> res[k].ok],
                   err |-> [k \in Backends |-> IF res[k].ok THEN "" ELSE res[k].err]])
    /\ UNCHANGED <<readers, phase, got, conv>>

StoreFinalize ==
    /\ phase = "Writing"
    /\ readers' = [k \in Backends |-> finalize(writers[k])]
    /\ phase' = "Finalized"
    /\ UNCHANGED <<writers, trace, got, conv>>

StoreGet(id) ==
    /\ phase = "Finalized"
    /\ got' = Some([id |-> id,
                    res |-> [k \in Backends |->
                               IF readers[k].ok THEN get(readers[k].v, id)
                               ELSE None]])
    /\ UNCHANGED <<writers, readers, phase, trace, conv>>

(***************************************************************************)
(* Properties of the node store, under Spec (defined at the end of         *)
(* Part 2, where every variable of the module is declared).                *)
(***************************************************************************)
\* the puts of `id` that backend k accepted, as indices into trace
OkPuts(k, id) == {i \in 1..Len(trace) : trace[i].id = id /\ trace[i].ok[k]}

LastOkPut(k, id) == CHOOSE i \in OkPuts(k, id) : \A j \in OkPuts(k, id) : j <= i

\* what a get reads back of the coordinates of trace[i]: (lon, lat) quantised
ReadBack(i) ==
    <<FromFixed(ToFixed(Lit(trace[i].lon))), FromFixed(ToFixed(Lit(trace[i].lat)))>>

\* |n * 10^-p| <= limit degrees
LitWithin(c, limit) == c[1] <= limit * Pow10(c[2]) /\ -c[1] <= limit * Pow10(c[2])

InRange(i) == LitWithin(trace[i].lat, 90) /\ LitWithin(trace[i].lon, 180)

\* C1: in every backend, after finalize, get(id) returns the coordinates of
\* the last accepted put of that id, however often the id was put.
C1_LastPutWins ==
    got.some =>
        \A k \in Backends :
            (readers[k].ok /\ OkPuts(k, got.v.id) # {}) =>
                got.v.res[k] = Some(ReadBack(LastOkPut(k, got.v.id)))

\* C2: for an in-range (id, lon, lat) written once, get(id) after finalize
\* returns Some((lon', lat')) with |lon - lon'| < 1e-7 and |lat - lat'| < 1e-7.
C2_RoundTripWithinTolerance ==
    got.some =>
        \A k \in Backends : \A i \in OkPuts(k, got.v.id) :
            (readers[k].ok /\ OkPuts(k, got.v.id) = {i} /\ InRange(i)) =>
                /\ got.v.res[k].some
                /\ WithinTol(Lit(trace[i].lon), got.v.res[k].v[1], 7)
                /\ WithinTol(Lit(trace[i].lat), got.v.res[k].v[2], 7)

\* C3: fed the same accepted put calls and finalized, the three backends
\* return identical get results for every queried id, written or not.
C3_BackendsAgree ==
    (/\ got.some
     /\ \A k \in Backends : readers[k].ok
     /\ \A i \in 1..Len(trace) : \A k \in Backends : trace[i].ok[k]) =>
        /\ got.v.res["Sparse"] = got.v.res["Memory"]
        /\ got.v.res["Dense"] = got.v.res["Memory"]

Descends(i) == i > 1 /\ trace[i].id < trace[i - 1].id

DenseSlot(mmap, id) == SubSeq(mmap, id * NODE_SIZE + 1, id * NODE_SIZE + NODE_SIZE)

\* C5: dense put fails iff id >= max_nodes, and then writes nothing; dense get
\* returns None iff id >= max_nodes; below max_nodes it returns a value, which
\* is (0, 0) for a slot never written.
C5_DenseCapacity ==
    /\ \A i \in 1..Len(trace) :
          /\ trace[i].ok["Dense"] <=> trace[i].id < DenseMaxNodes
          /\ ~trace[i].ok["Dense"] => trace[i].err["Dense"] = "OverCapacity"
    /\ phase = "Writing" =>
          /\ Len(writers["Dense"].mmap) = DenseMaxNodes * NODE_SIZE
          /\ \A id \in 0..(DenseMaxNodes - 1) :
                OkPuts("Dense", id) = {} =>
                    DenseSlot(writers["Dense"].mmap, id) = Zeros(NODE_SIZE)
    /\ (got.some /\ readers["Dense"].ok) =>
          /\ got.v.res["Dense"] = None <=> got.v.id >= DenseMaxNodes
          /\ got.v.id < DenseMaxNodes => got.v.res["Dense"].some
          /\ (got.v.id < DenseMaxNodes /\ OkPuts("Dense", got.v.id) = {}) =>
                got.v.res["Dense"] = Some(<<F64Zero, F64Zero>>)

\* a put over capacity was refused, another slot was written, and a get of a
\* slot never written returned (0, 0)
C5_Witness ==
    /\ got.some
    /\ readers["Dense"].ok
    /\ got.v.id < DenseMaxNodes
    /\ OkPuts("Dense", got.v.id) = {}
    /\ got.v.res["Dense"] = Some(<<F64Zero, F64Zero>>)
    /\ \E i \in 1..Len(trace) : trace[i].id >= DenseMaxNodes /\ ~trace[i].ok["Dense"]
    /\ \E i \in 1..Len(trace) : trace[i].ok["Dense"]

\* C6 as stated: whatever the backend, get returns None for an id never
\* written and for an id at or above the dense capacity, and never panics.
C6_NoneForUnwritten ==
    got.some =>
        \A k \in Backends :
            readers[k].ok =>
                /\ got.v.res[k] # Panic
                /\ (OkPuts(k, got.v.id) = {}
                      \/ (k = "Dense" /\ got.v.id >= DenseMaxNodes)) =>
                        got.v.res[k] = None

\* C6 amended: the sparse and memory backends return None for an id never
\* written; the dense backend returns None for an id at or above its capacity
\* and Some((0, 0)) for an id below its capacity that was never written; get
\* never panics.
C6_NoneForUnwrittenExceptDenseSlots ==
    got.some =>
        \A k \in Backends :
            readers[k].ok =>
                /\ got.v.res[k] # Panic
                /\ (k # "Dense" /\ OkPuts(k, got.v.id) = {}) => got.v.res[k] = None
                /\ (k = "Dense" /\ got.v.id >= DenseMaxNodes) => got.v.res[k] = None
                /\ (k = "Dense" /\ got.v.id < DenseMaxNodes
                        /\ OkPuts(k, got.v.id) = {}) =>
                        got.v.res[k] = Some(<<F64Zero, F64Zero>>)

\* on a store holding other ids, a get of an id never written: None from
\* sparse and memory, (0, 0) from dense
C6_Witness ==
    /\ got.some
    /\ \A k \in Backends : readers[k].ok
    /\ Len(trace) > 0
    /\ \A k \in Backends : OkPuts(k, got.v.id) = {}
    /\ got.v.id < DenseMaxNodes
    /\ got.v.res["Sparse"] = None
    /\ got.v.res["Memory"] = None
    /\ got.v.res["Dense"] = Some(<<F64Zero, F64Zero>>)

\* ---- C17, C18 ----
\* the last put call
LastPut == trace[Len(trace)]

\* C17: a put whose latitude or longitude lies outside +-180 degrees returns
\* an error in every backend, and a get of an id that was only put with such
\* coordinates returns None.
C17_OutOfRangeRejected ==
    /\ \A i \in 1..Len(trace) :
          ~(LitWithin(trace[i].lat, 180) /\ LitWithin(trace[i].lon, 180)) =>
              \A k \in Backends : ~trace[i].ok[k]
    /\ got.some =>
          \A k \in {"Sparse", "Memory"} :
              (\A i \in 1..Len(trace) :
                  trace[i].id = got.v.id =>
                      ~(LitWithin(trace[i].lat, 180) /\ LitWithin(trace[i].lon, 180))) =>
                  got.v.res[k] = None

\* the integer nearest to degrees x 10^7, for a literal of at most 7 decimals:
\* the binary64 nearest to n * 10^-p, scaled by 10^7, lies within 10^-8 of
\* n * 10^(7-p)
Nearest(c) == c[1] * Pow10(7 - c[2])

\* the i32 pair <<lat, lon>> a backend holds for id after the last put
Persisted(k, id) ==
    CASE k = "Memory" ->
            <<writers[k].nodes[id][2], writers[k].nodes[id][1]>>
      [] k = "Dense" ->
            <<I32FromLeBytes(SubSeq(writers[k].mmap, id * NODE_SIZE + 5, id * NODE_SIZE + 8)),
              I32FromLeBytes(SubSeq(writers[k].mmap, id * NODE_SIZE + 1, id * NODE_SIZE + 4))>>
      [] k = "Sparse" ->
            LET n == Len(writers[k].file)
            IN  <<I32FromLeBytes(SubSeq(writers[k].file, n - 7, n - 4)),
                  I32FromLeBytes(SubSeq(writers[k].file, n - 3, n))>>

\* C18: after an accepted put of in-range coordinates every backend holds, for
\* that id, the i32 nearest to latitude x 10^7 and the i32 nearest to longitude
\* x 10^7.
C18_StoredIsRounded ==
    (phase = "Writing" /\ trace # <<>>) =>
        \A k \in Backends :
            (LastPut.ok[k] /\ LitWithin(LastPut.lat, 90) /\ LitWithin(LastPut.lon, 180)) =>
                Persisted(k, LastPut.id) = <<Nearest(LastPut.lat), Nearest(LastPut.lon)>>

(***************************************************************************)
(* Part 2.  The pipeline driver, src/src/app/mod.rs: process_pbf runs      *)
(* pass1_index_nodes, finalize and pass2_process (or the single nodes-only *)
(* pass).  A pass reads the blobs of the input file with decoder workers,  *)
(* which send batches over a bounded channel to one writer thread.         *)
(***************************************************************************)
\* rayon worker threads
NumWorkers == 2
\* Capacity of the channel between decoders and writer.  The code creates it
\* with bounded(64); the model takes a small capacity so that a send blocking
\* on a full channel happens within a short file.
ChanCap == 1

Workers == 1..NumWorkers
Modes == {"Sparse", "Dense", "Memory"}

\* ---- the input file: what BlobReader yields and blob.decode() returns ----
\* `matches` is the value of evaluate_filter on the element's tags
Node(id, c, matches) ==
    [t |-> "node", id |-> id, lat |-> c[1], lon |-> c[2], refs |-> <<>>,
     matches |-> matches]

\* a node of a dense group; it carries the same id, lat, lon and tags
DenseNode(id, c, matches) ==
    [t |-> "dense", id |-> id, lat |-> c[1], lon |-> c[2], refs |-> <<>>,
     matches |-> matches]

Way(id, refs, matches) ==
    [t |-> "way", id |-> id, lat |-> <<0, 0>>, lon |-> <<0, 0>>, refs |-> refs,
     matches |-> matches]

Relation(id, matches) ==
    [t |-> "relation", id |-> id, lat |-> <<0, 0>>, lon |-> <<0, 0>>, refs |-> <<>>,
     matches |-> matches]

OsmHeader == [kind |-> "OsmHeader", elements |-> <<>>]
Unknown == [kind |-> "Unknown", elements |-> <<>>]
\* a blob whose read or decode returns Err
Corrupt == [kind |-> "Corrupt", elements |-> <<>>]
OsmData(elements) == [kind |-> "OsmData", elements |-> elements]

\* sorted ids; the last node is over the dense capacity
FileSorted ==
    << OsmHeader,
       OsmData(<<Node(0, CoordA, TRUE), DenseNode(1, CoordB, FALSE)>>),
       OsmData(<<Node(DenseMaxNodes, CoordA, TRUE)>>),
       OsmData(<<Way(7, <<0, 1, DenseMaxNodes>>, TRUE)>>) >>

\* ids out of order across blobs, an unknown blob, a way with one known ref
FileUnsorted ==
    << OsmData(<<Node(1, CoordA, TRUE)>>),
       Unknown,
       OsmData(<<Node(0, CoordB, TRUE), Way(7, <<0, 1>>, TRUE),
                 Way(8, <<0, DenseMaxNodes + 1>>, TRUE)>>) >>

\* a blob that fails to decode between two data blobs
FileCorrupt ==
    << OsmData(<<DenseNode(0, CoordA, TRUE)>>),
       Corrupt,
       OsmData(<<Node(1, CoordB, TRUE)>>) >>

Files == {FileSorted, FileUnsorted, FileCorrupt}

\* ---- config.table.geometry ----
\* WaySetting: Enabled(mode) is enabled with that mode; Disabled(value) is
\* enabled iff value, and its mode is Linestring.  A setting is kept as what
\* enabled() and mode() return for it.
Enabled(mode) == [enabled |-> TRUE, mode |-> mode]
Disabled(value) == [enabled |-> value, mode |-> "Linestring"]

way_enabled(way) == way.enabled
way_mode(way) == way.mode

WayGeometryModes == {"Linestring", "Polygon", "Centroid"}
ClosedWayModes == {"Polygon", "Centroid", "Linestring"}
WaySettings == {Enabled(m) : m \in WayGeometryModes} \cup {Disabled(v) : v \in BOOLEAN}

GeometryConfig(node, way, closed_way, relation) ==
    [node |-> node, way |-> way, closed_way |-> closed_way, relation |-> relation]

\* the geometry configs of the runs: which element kinds produce rows
Configs ==
    { GeometryConfig(TRUE, Enabled("Linestring"), "Polygon", FALSE),
      GeometryConfig(TRUE, Disabled(FALSE), "Polygon", TRUE),
      GeometryConfig(TRUE, Disabled(FALSE), "Polygon", FALSE) }

needs_node_store_compiled(config) == way_enabled(config.way) \/ config.relation

\* ---- error values: an anyhow chain, outermost context first ----
Failure(chain) == [ok |-> FALSE, err |-> chain]

\* thread::Result: what JoinHandle::join returns
JoinOk(r) == [panicked |-> FALSE, r |-> r, msg |-> ""]
JoinPanic(msg) == [panicked |-> TRUE, r |-> None, msg |-> msg]

\* the outcomes of a DataSink::add_feature call
SinkOutcomes == {"ok", "err", "panic"}

\* ---- what a decoder closure computes from a data block ----
\* (variant: the dense nodes of the block are left out)
RECURSIVE NodeBatch_SkipsDense(_, _)
NodeBatch_SkipsDense(elements, i) ==
    IF i > Len(elements) THEN <<>>
    ELSE LET e == elements[i]
         IN  (IF e.t = "node" THEN << <<e.id, e.lat, e.lon>> >> ELSE <<>>)
                \o NodeBatch_SkipsDense(elements, i + 1)

\* pass 1: the (id, lat, lon) of every node of the block, in block order
RECURSIVE NodeBatch(_, _)
NodeBatch(elements, i) ==
    IF i > Len(elements) THEN <<>>
    ELSE LET e == elements[i]
         IN  (IF e.t \in {"node", "dense"} THEN << <<e.id, e.lat, e.lon>> >> ELSE <<>>)
                \o NodeBatch(elements, i + 1)

\* refs.iter().filter_map(|&id| node_store.get(id)).collect()
RECURSIVE ResolveRefs(_, _, _)
ResolveRefs(node_store, refs, i) ==
    IF i > Len(refs) THEN <<>>
    ELSE LET c == get(node_store, refs[i])
         IN  (IF c.some THEN <<c.v>> ELSE <<>>) \o ResolveRefs(node_store, refs, i + 1)

\* A FeatureRow: the element it was built from, the variant of its Geometry
\* and the coordinates the geometry was built from.  The point of a centroid
\* is kept as the ring it is the centroid of.
FeatureRow(e, kind, coords, centroid) ==
    [t |-> e.t, id |-> e.id, kind |-> kind, geometry |-> coords, centroid |-> centroid]

PointRow(e) == FeatureRow(e, "Point", << <<Lit(e.lon), Lit(e.lat)>> >>, FALSE)

\* LineString::is_closed: the first coordinate equals the last
is_closed(coords) == coords[1] = coords[Len(coords)]

\* (variant: a ring always becomes a polygon)
build_way_geometry_RingIsPolygon(geometry_cfg, coords) ==
    IF is_closed(coords)
    THEN [kind |-> "Polygon", centroid |-> FALSE]
    ELSE CASE way_mode(geometry_cfg.way) = "Linestring" ->
                  [kind |-> "LineString", centroid |-> FALSE]
           [] way_mode(geometry_cfg.way) = "Polygon" ->
                  [kind |-> "Polygon", centroid |-> FALSE]
           [] way_mode(geometry_cfg.way) = "Centroid" ->
                  [kind |-> "Point", centroid |-> TRUE]

\* the Geometry variant build_way_geometry returns
build_way_geometry(geometry_cfg, coords) ==
    IF is_closed(coords)
    THEN CASE geometry_cfg.closed_way = "Polygon" ->
                  [kind |-> "Polygon", centroid |-> FALSE]
           [] geometry_cfg.closed_way = "Centroid" ->
                  [kind |-> "Point", centroid |-> TRUE]
           [] geometry_cfg.closed_way = "Linestring" ->
                  [kind |-> "LineString", centroid |-> FALSE]
    ELSE CASE way_mode(geometry_cfg.way) = "Linestring" ->
                  [kind |-> "LineString", centroid |-> FALSE]
           [] way_mode(geometry_cfg.way) = "Polygon" ->
                  [kind |-> "Polygon", centroid |-> FALSE]
           [] way_mode(geometry_cfg.way) = "Centroid" ->
                  [kind |-> "Point", centroid |-> TRUE]

\* (variant: a way with a single resolved reference still gives a row)
WayRows_OneCoord(e, config, node_store) ==
    IF way_enabled(config.way) /\ e.matches
    THEN LET coords == ResolveRefs(node_store, e.refs, 1)
         IN  IF Len(coords) >= 1
             THEN LET g == build_way_geometry(config, coords)
                  IN  <<FeatureRow(e, g.kind, coords, g.centroid)>>
             ELSE <<>>
    ELSE <<>>

\* the Element::Way arm of process_block_collect
WayRows(e, config, node_store) ==
    IF way_enabled(config.way) /\ e.matches
    THEN LET coords == ResolveRefs(node_store, e.refs, 1)
         IN  IF Len(coords) >= 2
             THEN LET g == build_way_geometry(config, coords)
                  IN  <<FeatureRow(e, g.kind, coords, g.centroid)>>
             ELSE <<>>
    ELSE <<>>

\* (variant: the node arm ignores the filter)
NodeRows_NoFilter(e, config) ==
    IF config.node THEN <<PointRow(e)>> ELSE <<>>

\* the Element::Node and Element::DenseNode arms
NodeRows(e, config) ==
    IF config.node /\ e.matches THEN <<PointRow(e)>> ELSE <<>>

\* the rows one element contributes in process_block_collect
ElementRows(e, config, node_store) ==
    CASE e.t \in {"node", "dense"} -> NodeRows(e, config)
      [] e.t = "way" -> WayRows(e, config, node_store)
      [] e.t = "relation" -> <<>>

\* (variant: the rows come out in reverse element order)
RECURSIVE process_block_collect_Reversed(_, _, _, _)
process_block_collect_Reversed(elements, config, node_store, i) ==
    IF i > Len(elements) THEN <<>>
    ELSE process_block_collect_Reversed(elements, config, node_store, i + 1)
            \o ElementRows(elements[i], config, node_store)

RECURSIVE process_block_collect(_, _, _, _)
process_block_collect(elements, config, node_store, i) ==
    IF i > Len(elements) THEN <<>>
    ELSE ElementRows(elements[i], config, node_store)
            \o process_block_collect(elements, config, node_store, i + 1)

\* (variant: the nodes-only pass leaves out dense nodes)
RECURSIVE process_block_nodes_only_collect_SkipsDense(_, _, _)
process_block_nodes_only_collect_SkipsDense(elements, config, i) ==
    IF i > Len(elements) THEN <<>>
    ELSE LET e == elements[i]
         IN  (IF e.t = "node" THEN NodeRows(e, config) ELSE <<>>)
                \o process_block_nodes_only_collect_SkipsDense(elements, config, i + 1)

RECURSIVE process_block_nodes_only_collect(_, _, _)
process_block_nodes_only_collect(elements, config, i) ==
    IF i > Len(elements) THEN <<>>
    ELSE LET e == elements[i]
         IN  (IF e.t \in {"node", "dense"} THEN NodeRows(e, config) ELSE <<>>)
                \o process_block_nodes_only_collect(elements, config, i + 1)

\* the number of node_store.get calls process_block_collect makes
RECURSIVE GetCalls(_, _, _)
GetCalls(elements, config, i) ==
    IF i > Len(elements) THEN 0
    ELSE LET e == elements[i]
         IN  (IF e.t = "way" /\ way_enabled(config.way) /\ e.matches
              THEN Len(e.refs) ELSE 0)
                + GetCalls(elements, config, i + 1)

\* ---- the bounded channel: q holds the batches in flight, rx and tx say
\* whether the receiver and the senders are still alive ----
NewChannel == [q |-> <<>>, rx |-> TRUE, tx |-> TRUE]

\* (variant: a send does not notice that the receiver is gone)
SendOutcome_IgnoresDisconnect(ch) ==
    IF Len(ch.q) < ChanCap THEN "sent" ELSE "full"

\* tx.send(batch): fails once the receiver is dropped, blocks while full
SendOutcome(ch) ==
    IF ~ch.rx THEN "disconnected"
    ELSE IF Len(ch.q) < ChanCap THEN "sent"
    ELSE "full"

\* (variant: the iteration ends as soon as the senders are gone)
RecvOutcome_DropsPending(ch) ==
    IF ~ch.tx THEN "closed"
    ELSE IF ch.q # <<>> THEN "batch"
    ELSE "empty"

\* `for batch in rx`: the next batch; the end of the iteration once the channel
\* is empty and every sender is dropped; otherwise the receiver blocks
RecvOutcome(ch) ==
    IF ch.q # <<>> THEN "batch"
    ELSE IF ~ch.tx THEN "closed"
    ELSE "empty"

\* ---- the writer thread's loop body for one item ----
\* pass 1: node_store.put(id, lat, lon).with_context(..)?; node_count += 1
Pass1WriterItem(w, store, item) ==
    LET r == put(store, item[1], Lit(item[2]), Lit(item[3]))
    IN  IF r.ok
        THEN [w |-> [w EXCEPT !.count = w.count + 1, !.cur = Tail(w.cur),
                              !.st = IF Len(w.cur) > 1 THEN "batch" ELSE "recv"],
              store |-> r.v]
        ELSE [w |-> [w EXCEPT !.st = "done", !.cur = <<>>,
                        !.res = IF r.err = "Panic" THEN JoinPanic("index out of range")
                                ELSE JoinOk(Failure(<<"Pipeline: Failed writing node",
                                                      r.err>>))],
              store |-> r.v]

\* (variant: match_count counts batches, not rows)
SinkWriterItem_CountsBatches(w, outcome) ==
    CASE outcome = "ok" ->
            [w EXCEPT !.count = w.count + (IF Len(w.cur) > 1 THEN 0 ELSE 1),
                      !.cur = Tail(w.cur),
                      !.st = IF Len(w.cur) > 1 THEN "batch" ELSE "recv"]
      [] outcome = "err" ->
            [w EXCEPT !.st = "done", !.cur = <<>>,
                      !.res = JoinOk(Failure(<<"sink error">>))]
      [] outcome = "panic" ->
            [w EXCEPT !.st = "done", !.cur = <<>>, !.res = JoinPanic("sink panic")]

\* run_pass: sink.add_feature(row)?; match_count += 1
SinkWriterItem(w, outcome) ==
    CASE outcome = "ok" ->
            [w EXCEPT !.count = w.count + 1, !.cur = Tail(w.cur),
                      !.st = IF Len(w.cur) > 1 THEN "batch" ELSE "recv"]
      [] outcome = "err" ->
            [w EXCEPT !.st = "done", !.cur = <<>>,
                      !.res = JoinOk(Failure(<<"sink error">>))]
      [] outcome = "panic" ->
            [w EXCEPT !.st = "done", !.cur = <<>>, !.res = JoinPanic("sink panic")]

\* ---- the value a pass returns, from the writer's join result and the
\* decode side's result ----
\* (variant: the decode side's error is looked at first)
pass_return_DecodeFirst(writer_join, decode_result, disconnect_ctx, panic_ctx) ==
    IF ~decode_result.ok THEN decode_result
    ELSE IF ~writer_join.panicked
         THEN IF writer_join.r.ok THEN Ok(writer_join.r.v) ELSE writer_join.r
         ELSE Failure(<<panic_ctx, writer_join.msg>>)

pass_return(writer_join, decode_result, disconnect_ctx, panic_ctx) ==
    IF ~writer_join.panicked
    THEN IF writer_join.r.ok
         THEN IF decode_result.ok THEN Ok(writer_join.r.v) ELSE decode_result
         ELSE IF ~decode_result.ok
              THEN Failure(<<disconnect_ctx>> \o writer_join.r.err)
              ELSE writer_join.r
    ELSE Failure(<<panic_ctx, writer_join.msg>>)

DisconnectContext(p) ==
    IF p = "pass1" THEN "writer thread failed (caused channel disconnect)"
    ELSE "Pipeline: Sink writer thread failed (caused channel disconnect)"

PanicContext(p) ==
    IF p = "pass1" THEN "Pipeline: Node writer thread panicked"
    ELSE "Pipeline: Sink writer thread panicked"

SendError(p) ==
    IF p = "pass1" THEN <<"Pipeline: Failed to send node batch">>
    ELSE <<"Pipeline: Failed to send feature batch">>

DecodeError == <<"blob decode error">>

\* ---- state ----
VARIABLES
    input,          \* the run's inputs: file, resolved cache mode, geometry config
    pc,             \* main thread: "init", "decode", "join", "finalize", "done"
    pass,           \* the pass in progress: "none", "pass1", "pass2", "nodes_only"
    reader_pos,     \* BlobReader: index of the next blob it yields
    workers,        \* per decoder worker: where its closure invocation stands
    decode_errs,    \* the errors closure invocations have returned so far
    decode_result,  \* what try_for_each returned
    chan,           \* the bounded channel of the pass
    writer,         \* the writer thread of the pass
    node_store,     \* the node store: its phase and content
    sink,           \* the DataSink behind the mutex
    passes,         \* the passes that returned: join result, decode result, value
    hist,           \* counts: put calls, get calls, nodes sent in pass 1, rows
                    \* sent in pass 2, senders blocked on a full channel at the
                    \* moment it disconnected; and the (id, lat, lon) of the put
                    \* calls, in call order
    result,         \* what process_pbf returned
    job             \* main: whether it has exited, its finish calls, its result

\* ---- state of the unit harnesses: one block run through a processor, one
\* sink driven from construction to finish ----
VARIABLES
    block,          \* the block, the config and the node store of the processor
    rows,           \* what process_block returned
    file_sink       \* the sink: its format, its columns, what it has written

\* ---- state of the harnesses of the sequential units ----
VARIABLES
    cache_mode,     \* one node cache mode option: parsed, then resolved
    dsl,            \* one filter: its source text, its AST, what it matches
    progress        \* one ProgressCounter and the threads that increment it

funVars == <<cache_mode, dsl, progress>>

unitVars == <<block, rows, file_sink, funVars>>

pipeVars ==
    <<input, pc, pass, reader_pos, workers, decode_errs, decode_result, chan,
      writer, node_store, sink, passes, hist, result, job>>

vars == <<conv, writers, readers, phase, trace, got, input, pc, pass, reader_pos, workers,
          decode_errs, decode_result, chan, writer, node_store, sink, passes, hist,
          result, job, block, rows, file_sink, cache_mode, dsl, progress>>

\* no run of process_pbf
NoInput == [file |-> <<>>, mode |-> "Memory",
            config |-> GeometryConfig(FALSE, Disabled(FALSE), "Polygon", FALSE)]

NoBlock == [stage |-> "none"]
NoSink == [st |-> "none"]

\* the harnesses of the sequential units are not in use
FunIdle ==
    /\ cache_mode = [st |-> "none"]
    /\ dsl = [st |-> "none"]
    /\ progress = [st |-> "none"]

\* the unit harnesses are not in use
UnitIdle ==
    /\ block = NoBlock
    /\ rows = None
    /\ file_sink = NoSink
    /\ FunIdle

IdleWorker == [st |-> "idle", blob |-> 0, batch |-> <<>>]

NoWriter == [st |-> "none", cur |-> <<>>, count |-> 0, res |-> JoinOk(None)]

PipeStart ==
    /\ pc = "init"
    /\ pass = "none"
    /\ reader_pos = 1
    /\ workers = [w \in Workers |-> IdleWorker]
    /\ decode_errs = {}
    /\ decode_result = None
    /\ chan = NewChannel
    /\ writer = NoWriter
    /\ node_store = [phase |-> "None", v |-> None]
    /\ sink = [rows |-> <<>>, calls |-> 0, holder |-> "none", poisoned |-> FALSE]
    /\ passes = <<>>
    /\ hist = [puts |-> 0, gets |-> 0, sent |-> 0, rows_sent |-> 0, woken |-> 0,
               put_seq |-> <<>>]
    /\ result = None
    /\ job = [st |-> "running", finish_calls |-> 0, finish_outcome |-> "none",
              result |-> None]

PipeInit ==
    /\ input \in [file : Files, mode : Modes, config : Configs]
    /\ PipeStart
    /\ StoreInit
    /\ UnitIdle
    /\ ConvInit

\* the pass opens the file, creates the channel and spawns the writer thread
\* (pass1_index_nodes l.215-239, run_pass l.365-380)
SpawnPass(p) ==
    /\ pass' = p
    /\ pc' = "decode"
    /\ reader_pos' = 1
    /\ workers' = [w \in Workers |-> IdleWorker]
    /\ decode_errs' = {}
    /\ decode_result' = None
    /\ chan' = NewChannel
    /\ writer' = [st |-> IF p = "pass1" THEN "recv" ELSE "start",
                  cur |-> <<>>, count |-> 0, res |-> JoinOk(None)]

\* process_pbf up to the first pass
ProcessPbfStart ==
    /\ pc = "init"
    /\ IF needs_node_store_compiled(input.config)
       THEN /\ node_store' =
                  [phase |-> "Writing",
                   v |-> CASE input.mode = "Sparse" -> new_sparse
                           [] input.mode = "Dense"  -> new_dense_temp(DenseMaxNodes)
                           [] input.mode = "Memory" -> new_memory]
            /\ SpawnPass("pass1")
       ELSE /\ node_store' = node_store
            /\ SpawnPass("nodes_only")
    /\ UNCHANGED <<storeVars, unitVars>>
    /\ UNCHANGED <<conv, job, input, sink, passes, hist, result>>

\* (variant: pass 1 decodes on the rayon pool whatever the store)
use_parallel_Always == TRUE

\* pass 1 decodes sequentially for the sparse store, else on the rayon pool
use_parallel == input.mode # "Sparse"

ActiveWorkers == IF pass = "pass1" /\ ~use_parallel THEN {1} ELSE Workers

\* a worker pulls the next blob from the shared iterator, unless an earlier
\* closure invocation has already returned an error
WorkerTake(w) ==
    /\ pc = "decode"
    /\ w \in ActiveWorkers
    /\ workers[w].st = "idle"
    /\ decode_errs = {}
    /\ reader_pos <= Len(input.file)
    /\ workers' = [workers EXCEPT ![w] = [st |-> "blob", blob |-> reader_pos,
                                         batch |-> <<>>]]
    /\ reader_pos' = reader_pos + 1
    /\ UNCHANGED <<storeVars, unitVars>>
    /\ UNCHANGED <<conv, job, input, pc, pass, decode_errs, decode_result, chan, writer,
                   node_store, sink, passes, hist, result>>

BatchOf(blob) ==
    CASE pass = "pass1" -> NodeBatch(blob.elements, 1)
      [] pass = "pass2" ->
            process_block_collect(blob.elements, input.config, node_store.v, 1)
      [] pass = "nodes_only" ->
            process_block_nodes_only_collect(blob.elements, input.config, 1)

\* the closure body up to the send: decode the blob, build the batch
WorkerDecode(w) ==
    /\ pc = "decode"
    /\ workers[w].st = "blob"
    /\ LET blob == input.file[workers[w].blob]
       IN  CASE blob.kind = "Corrupt" ->
                  /\ decode_errs' = decode_errs \cup {DecodeError}
                  /\ workers' = [workers EXCEPT ![w] = IdleWorker]
                  /\ hist' = hist
             [] blob.kind \in {"OsmHeader", "Unknown"} ->
                  /\ workers' = [workers EXCEPT ![w] = IdleWorker]
                  /\ UNCHANGED <<decode_errs, hist>>
             [] blob.kind = "OsmData" ->
                  LET batch == BatchOf(blob)
                  IN  /\ workers' = [workers EXCEPT ![w] =
                            IF batch = <<>> THEN IdleWorker
                            ELSE [st |-> "send", blob |-> workers[w].blob,
                                  batch |-> batch]]
                      /\ hist' = [hist EXCEPT !.gets =
                            IF pass = "pass2"
                            THEN hist.gets + GetCalls(blob.elements, input.config, 1)
                            ELSE hist.gets]
                      /\ decode_errs' = decode_errs
    /\ UNCHANGED <<storeVars, unitVars>>
    /\ UNCHANGED <<conv, job, input, pc, pass, reader_pos, decode_result, chan, writer,
                   node_store, sink, passes, result>>

\* (variant: a batch that finds the channel full is dropped, as try_send would)
WorkerSend_DropsWhenFull(w) ==
    /\ pc = "decode"
    /\ workers[w].st = "send"
    /\ IF SendOutcome(chan) = "sent"
       THEN /\ chan' = [chan EXCEPT !.q = Append(chan.q, workers[w].batch)]
            /\ hist' = IF pass = "pass1"
                       THEN [hist EXCEPT !.sent = hist.sent + Len(workers[w].batch)]
                       ELSE [hist EXCEPT !.rows_sent =
                                            hist.rows_sent + Len(workers[w].batch)]
            /\ decode_errs' = decode_errs
       ELSE IF SendOutcome(chan) = "full"
       THEN UNCHANGED <<chan, hist, decode_errs>>
       ELSE /\ decode_errs' = decode_errs \cup {SendError(pass)}
            /\ UNCHANGED <<chan, hist>>
    /\ workers' = [workers EXCEPT ![w] = IdleWorker]
    /\ UNCHANGED <<storeVars, unitVars>>
    /\ UNCHANGED <<conv, job, input, pc, pass, reader_pos, decode_result, writer, node_store,
                   sink, passes, result>>

\* tx.send(batch)?
WorkerSend(w) ==
    /\ pc = "decode"
    /\ workers[w].st = "send"
    /\ SendOutcome(chan) # "full"
    /\ IF SendOutcome(chan) = "sent"
       THEN /\ chan' = [chan EXCEPT !.q = Append(chan.q, workers[w].batch)]
            /\ hist' = IF pass = "pass1"
                       THEN [hist EXCEPT !.sent = hist.sent + Len(workers[w].batch)]
                       ELSE [hist EXCEPT !.rows_sent =
                                            hist.rows_sent + Len(workers[w].batch)]
            /\ decode_errs' = decode_errs
       ELSE /\ decode_errs' = decode_errs \cup {SendError(pass)}
            /\ UNCHANGED <<chan, hist>>
    /\ workers' = [workers EXCEPT ![w] = IdleWorker]
    /\ UNCHANGED <<storeVars, unitVars>>
    /\ UNCHANGED <<conv, job, input, pc, pass, reader_pos, decode_result, writer, node_store,
                   sink, passes, result>>

\* try_for_each returns and the main thread drops its sender
DecodeReturn ==
    /\ pc = "decode"
    /\ \A w \in Workers : workers[w].st = "idle"
    /\ decode_errs # {} \/ reader_pos > Len(input.file)
    /\ IF decode_errs = {} THEN decode_result' = Ok(None)
       ELSE \E e \in decode_errs : decode_result' = Failure(e)
    /\ chan' = [chan EXCEPT !.tx = FALSE]
    /\ pc' = "join"
    /\ UNCHANGED <<storeVars, unitVars>>
    /\ UNCHANGED <<conv, job, input, pass, reader_pos, workers, decode_errs, writer, node_store,
                   sink, passes, hist, result>>

\* the senders that sit in a send on a full channel
BlockedSenders == {w \in Workers : workers[w].st = "send" /\ Len(chan.q) >= ChanCap}

\* the writer thread ends with an error or a panic: its receiver is dropped,
\* the batches still in the channel are discarded, the sink guard is released
WriterDies ==
    /\ chan' = [chan EXCEPT !.rx = FALSE, !.q = <<>>]
    /\ hist' = [hist EXCEPT !.woken = hist.woken + Cardinality(BlockedSenders)]

\* (variant: the writer thread starts its loop without taking the mutex)
WriterStart_NoLock ==
    /\ writer.st = "start"
    /\ writer' = [writer EXCEPT !.st = "recv"]
    /\ UNCHANGED <<storeVars, unitVars>>
    /\ UNCHANGED <<conv, job, input, pc, pass, reader_pos, workers, decode_errs, decode_result,
                   node_store, passes, result, sink, chan, hist>>

\* run_pass's writer thread takes the sink's mutex: sink_handle.lock().unwrap()
WriterStart ==
    /\ writer.st = "start"
    /\ sink.holder = "none"
    /\ IF sink.poisoned
       THEN /\ writer' = [writer EXCEPT !.st = "done",
                                        !.res = JoinPanic("PoisonError")]
            /\ sink' = sink
            /\ WriterDies
       ELSE /\ writer' = [writer EXCEPT !.st = "recv"]
            /\ sink' = [sink EXCEPT !.holder = "writer"]
            /\ UNCHANGED <<chan, hist>>
    /\ UNCHANGED <<storeVars, unitVars>>
    /\ UNCHANGED <<conv, job, input, pc, pass, reader_pos, workers, decode_errs, decode_result,
                   node_store, passes, result>>

\* `for batch in rx`: take the next batch, or leave the loop and return Ok
WriterRecv ==
    /\ writer.st = "recv"
    /\ RecvOutcome(chan) # "empty"
    /\ IF RecvOutcome(chan) = "batch"
       THEN /\ writer' = [writer EXCEPT !.st = "batch", !.cur = Head(chan.q)]
            /\ chan' = [chan EXCEPT !.q = Tail(chan.q)]
            /\ sink' = sink
       ELSE /\ writer' = [writer EXCEPT !.st = "done",
                                        !.res = JoinOk(Ok(writer.count))]
            /\ chan' = [chan EXCEPT !.rx = FALSE]
            /\ sink' = [sink EXCEPT !.holder = "none"]
    /\ UNCHANGED <<storeVars, unitVars>>
    /\ UNCHANGED <<conv, job, input, pc, pass, reader_pos, workers, decode_errs, decode_result,
                   node_store, passes, hist, result>>

\* pass 1: one node of the current batch is put into the store
WriterPut ==
    /\ writer.st = "batch"
    /\ pass = "pass1"
    /\ LET step == Pass1WriterItem(writer, node_store.v, Head(writer.cur))
       IN  /\ writer' = step.w
           /\ node_store' = [node_store EXCEPT !.v = step.store]
           /\ IF step.w.st = "done"
              THEN /\ chan' = [chan EXCEPT !.rx = FALSE, !.q = <<>>]
                   /\ hist' = [hist EXCEPT
                                 !.puts = hist.puts + 1,
                                 !.put_seq = Append(hist.put_seq, Head(writer.cur)),
                                 !.woken = hist.woken + Cardinality(BlockedSenders)]
              ELSE /\ chan' = chan
                   /\ hist' = [hist EXCEPT
                                 !.puts = hist.puts + 1,
                                 !.put_seq = Append(hist.put_seq, Head(writer.cur))]
    /\ UNCHANGED <<storeVars, unitVars>>
    /\ UNCHANGED <<conv, job, input, pc, pass, reader_pos, workers, decode_errs, decode_result,
                   sink, passes, result>>

\* pass 2 and the nodes-only pass: one row of the current batch goes to the sink
WriterAddFeature ==
    /\ writer.st = "batch"
    /\ pass \in {"pass2", "nodes_only"}
    /\ \E outcome \in SinkOutcomes :
          /\ writer' = SinkWriterItem(writer, outcome)
          /\ sink' = [sink EXCEPT
                        !.calls = sink.calls + 1,
                        !.rows = IF outcome = "ok" THEN Append(sink.rows, Head(writer.cur))
                                 ELSE sink.rows,
                        !.holder = IF outcome = "ok" THEN "writer" ELSE "none",
                        !.poisoned = sink.poisoned \/ outcome = "panic"]
          /\ IF outcome = "ok" THEN UNCHANGED <<chan, hist>> ELSE WriterDies
    /\ UNCHANGED <<storeVars, unitVars>>
    /\ UNCHANGED <<conv, job, input, pc, pass, reader_pos, workers, decode_errs, decode_result,
                   node_store, passes, result>>

\* writer.join() and the rest of the pass function; process_pbf goes on to
\* finalize after a successful pass 1 and returns otherwise
WriterJoin ==
    /\ pc = "join"
    /\ writer.st = "done"
    /\ LET ret == pass_return(writer.res, decode_result, DisconnectContext(pass),
                              PanicContext(pass))
       IN  /\ passes' = Append(passes,
                  [pass |-> pass, writer_join |-> writer.res,
                   decode_result |-> decode_result, ret |-> ret])
           /\ IF pass = "pass1" /\ ret.ok
              THEN pc' = "finalize" /\ result' = result
              ELSE pc' = "done" /\ result' = ret
    /\ UNCHANGED <<storeVars, unitVars>>
    /\ UNCHANGED <<conv, job, input, pass, reader_pos, workers, decode_errs, decode_result, chan,
                   writer, node_store, sink, hist>>

\* node_store.finalize()?, then pass2_process starts
Finalize ==
    /\ pc = "finalize"
    /\ LET r == finalize(node_store.v)
       IN  IF r.ok
           THEN /\ node_store' = [phase |-> "Finalized", v |-> r.v]
                /\ SpawnPass("pass2")
                /\ result' = result
           ELSE /\ node_store' = [phase |-> "Dropped", v |-> None]
                /\ pc' = "done"
                /\ result' = Failure(<<r.err>>)
                /\ UNCHANGED <<pass, reader_pos, workers, decode_errs, decode_result,
                               chan, writer>>
    /\ UNCHANGED <<storeVars, unitVars>>
    /\ UNCHANGED <<conv, job, input, sink, passes, hist>>

\* the outcomes of a DataSink::finish call
FinishOutcomes == {"ok", "err"}

\* (variant: main calls finish whatever process_pbf returned)
main_exit_FinishAlways(j, process_result, finish_outcome) ==
    [j EXCEPT !.st = "exited",
              !.finish_calls = j.finish_calls + 1,
              !.finish_outcome = finish_outcome,
              !.result = IF ~process_result.ok THEN process_result
                         ELSE IF finish_outcome = "ok" THEN Ok(None)
                         ELSE Failure(<<"sink finish error">>)]

\* main from the return of process_pbf on: `process_pbf(..)?`, then
\* sink.finish()?, then Ok(())
main_exit(j, process_result, finish_outcome) ==
    IF ~process_result.ok
    THEN [j EXCEPT !.st = "exited", !.result = process_result]
    ELSE [j EXCEPT !.st = "exited",
                   !.finish_calls = j.finish_calls + 1,
                   !.finish_outcome = finish_outcome,
                   !.result = IF finish_outcome = "ok" THEN Ok(None)
                              ELSE Failure(<<"sink finish error">>)]

\* process_pbf has returned to main, which takes the sink's mutex and finishes
\* the sink, or returns the error
MainExit ==
    /\ pc = "done"
    /\ job.st = "running"
    /\ sink.holder = "none"
    /\ IF result.ok /\ sink.poisoned
       THEN job' = [job EXCEPT !.st = "exited",
                               !.result = Failure(<<"main panicked: PoisonError">>)]
       ELSE \E outcome \in FinishOutcomes : job' = main_exit(job, result, outcome)
    /\ UNCHANGED <<storeVars, unitVars>>
    /\ UNCHANGED <<conv, input, pc, pass, reader_pos, workers, decode_errs, decode_result,
                   chan, writer, node_store, sink, passes, hist, result>>

PipeNext ==
    \/ ProcessPbfStart
    \/ \E w \in Workers : WorkerTake(w)
    \/ \E w \in Workers : WorkerDecode(w)
    \/ \E w \in Workers : WorkerSend(w)
    \/ DecodeReturn
    \/ WriterStart
    \/ WriterRecv
    \/ WriterPut
    \/ WriterAddFeature
    \/ WriterJoin
    \/ Finalize
    \/ MainExit

\* ---- one block through StandardProcessor::process_block ----
\* the nodes pass 1 has put into the store, in id order: both nodes of the
\* blocks below; node 1 alone; two nodes at the same place
IndexedNodes ==
    { << <<0, CoordA>>, <<1, CoordB>> >>,
      << <<1, CoordA>> >>,
      << <<0, CoordA>>, <<1, CoordA>> >> }

\* nodes, a dense node, a relation and an open way
BlockMixed ==
    << Node(0, CoordA, TRUE), DenseNode(1, CoordB, TRUE), Node(5, CoordA, FALSE),
       Relation(9, TRUE), Way(7, <<0, 1>>, TRUE) >>

\* a way that returns to its first node, a way with one reference over the
\* dense capacity, a way the filter rejects
BlockRing ==
    << Way(7, <<0, 1, 0>>, TRUE), Way(8, <<0, DenseMaxNodes + 1>>, TRUE),
       Way(9, <<0, 1>>, FALSE), DenseNode(1, CoordB, FALSE) >>

\* ways whose references are only partly in the store
BlockPartial ==
    << Way(7, <<1, 0, 1>>, TRUE), Way(8, <<DenseMaxNodes + 1>>, TRUE),
       Way(6, <<1, 0>>, TRUE) >>

BlockElements == {BlockMixed, BlockRing, BlockPartial}

BlockConfigs ==
    {GeometryConfig(x[1], x[2], x[3], TRUE) :
        x \in BOOLEAN \X WaySettings \X ClosedWayModes}

\* node_store.put for every indexed node
RECURSIVE PutAll(_, _, _)
PutAll(store, nodes, i) ==
    IF i > Len(nodes) THEN store
    ELSE PutAll(put(store, nodes[i][1], Lit(nodes[i][2][1]), Lit(nodes[i][2][2])).v,
                nodes, i + 1)

BlockInit ==
    /\ block \in [stage : {"new"}, elements : BlockElements, config : BlockConfigs,
                   mode : Modes, nodes : IndexedNodes, store : {None}]
    /\ rows = None
    /\ file_sink = NoSink
    /\ FunIdle
    /\ StoreInit
    /\ input = NoInput
    /\ PipeStart
    /\ ConvInit

\* the node store is filled and finalized, as pass 1 and process_pbf do
BlockIndexNodes ==
    /\ block.stage = "new"
    /\ LET w == CASE block.mode = "Sparse" -> new_sparse
                  [] block.mode = "Dense"  -> new_dense_temp(DenseMaxNodes)
                  [] block.mode = "Memory" -> new_memory
       IN  block' = [block EXCEPT !.stage = "indexed",
                                  !.store = finalize(PutAll(w, block.nodes, 1)).v]
    /\ UNCHANGED <<conv, rows, file_sink, funVars, storeVars, pipeVars>>

\* StandardProcessor::process_block
BlockProcess ==
    /\ block.stage = "indexed"
    /\ rows' = Ok(process_block_collect(block.elements, block.config, block.store, 1))
    /\ block' = [block EXCEPT !.stage = "done"]
    /\ UNCHANGED <<conv, file_sink, funVars, storeVars, pipeVars>>

BlockNext ==
    \/ BlockIndexNodes
    \/ BlockProcess

(***************************************************************************)
(* Part 3.  The sinks, src/src/sinks, and init_sink of src/src/app/mod.rs. *)
(* A file is the sequence of the JSON tokens written to it; white space,   *)
(* which JSON ignores between tokens, is left out.                         *)
(***************************************************************************)
\* add_feature calls made on one sink
MaxFeatures == 3

\* ---- GeoJsonSink ----
\* writeln "{", "  \"type\": \"FeatureCollection\",", "  \"features\": ["
Preamble ==
    <<"{", "\"type\"", ":", "\"FeatureCollection\"", ",", "\"features\"", ":", "[">>

\* writeln "", "  ]", "}"
Closing == <<"]", "}">>

\* ---- FeatureRow as the sinks see it: the variant of the geometry, the
\* columns as <<name, <<variant of ColumnValue, value>>>> pairs, the extras as
\* <<key, JSON text>> pairs; one pair per name ----
RowBare == [geometry |-> "Point", columns |-> {}, extras |-> {}]

RowColumns ==
    [geometry |-> "LineString",
     columns |-> {<<"name", <<"String", "FromColumn">>>>, <<"lanes", <<"Integer", "2">>>>},
     extras |-> {}]

\* a column and an extras key of the same name
RowCollision ==
    [geometry |-> "Polygon",
     columns |-> {<<"name", <<"String", "FromColumn">>>>},
     extras |-> {<<"name", "\"FromExtras\"">>}]

RowAll ==
    [geometry |-> "Point",
     columns |-> {<<"name", <<"String", "FromColumn">>>>, <<"lanes", <<"Integer", "2">>>>},
     extras |-> {<<"name", "\"FromExtras\"">>, <<"tags", "{\"highway\":\"primary\"}">>}]

SinkRows == {RowBare, RowColumns, RowCollision, RowAll}

\* the JSON value of a column: Value::String(val), Value::from(val)
JsonValue(value) ==
    IF value[1] = "String" THEN "\"" \o value[2] \o "\"" ELSE value[2]

\* (variant: a column replaces the extras value of its name)
properties_ColumnsWin(row) ==
    {e \in row.extras : \A c \in row.columns : c[1] # e[1]}
        \cup {<<c[1], JsonValue(c[2])>> : c \in row.columns}

\* add_feature of GeoJsonSink and GeoJsonlSink: the properties are the
\* extras, and every column whose name the extras do not hold
properties(row) ==
    row.extras \cup
        {<<c[1], JsonValue(c[2])>> : c \in {c \in row.columns :
                                                \A e \in row.extras : e[1] # c[1]}}

\* the keys of the rows above, in the order a serde_json Map writes them
PropertyKeys == <<"lanes", "name", "tags">>

\* serde_json's text of a Map: the members in key order
ObjectJson(map) ==
    LET RECURSIVE Members(_, _)
        Members(i, first) ==
            IF i > Len(PropertyKeys) THEN ""
            ELSE IF \E m \in map : m[1] = PropertyKeys[i]
            THEN (IF first THEN "" ELSE ",") \o "\"" \o PropertyKeys[i] \o "\":"
                    \o (CHOOSE m \in map : m[1] = PropertyKeys[i])[2]
                    \o Members(i + 1, FALSE)
            ELSE Members(i + 1, first)
    IN  "{" \o Members(1, TRUE) \o "}"

\* the text of a Feature with that geometry and these properties (the
\* coordinates are left out)
FeatureText(geometry, props) ==
    "{\"type\":\"Feature\",\"geometry\":{\"type\":\"" \o geometry
        \o "\"},\"properties\":" \o ObjectJson(props) \o "}"

\* serde_json::to_writer(GeoJson::Feature(..)): one JSON object, a single value
FeatureJson(row) == FeatureText(row.geometry, properties(row))

GeoJsonSink_new == [file |-> Preamble, first_feature |-> TRUE]

\* (variant: the separator is written after every feature)
GeoJsonSink_add_feature_TrailingComma(self, row, outcome) ==
    IF outcome = "ok"
    THEN Ok([file |-> self.file \o <<FeatureJson(row), ",">>, first_feature |-> FALSE])
    ELSE Err([file |-> self.file, first_feature |-> FALSE], "io error")

\* add_feature: the separator unless this is the first feature, then the
\* feature; outcome "err" is a failure of serde_json::to_writer
GeoJsonSink_add_feature(self, row, outcome) ==
    LET separated == IF ~self.first_feature THEN Append(self.file, ",") ELSE self.file
    IN  IF outcome = "ok"
        THEN Ok([file |-> Append(separated, FeatureJson(row)), first_feature |-> FALSE])
        ELSE Err([file |-> separated, first_feature |-> FALSE], "io error")

GeoJsonSink_finish(self) == Ok([self EXCEPT !.file = self.file \o Closing])

\* ---- GeoJsonlSink: a file is the sequence of its lines' texts and line
\* ends ----
GeoJsonlSink_new == [file |-> <<>>]

\* add_feature: the feature, then a line end
GeoJsonlSink_add_feature(self, row, outcome) ==
    IF outcome = "ok"
    THEN Ok([file |-> self.file \o <<FeatureJson(row), "\n">>])
    ELSE Err(self, "io error")

GeoJsonlSink_finish(self) == Ok(self)

\* ---- reading a GeoJSON file back: serde_json::from_str, for a document made
\* of the tokens above ----
IsValue(tok) == tok \in {FeatureJson(row) : row \in SinkRows}

\* the elements of an array, from the token after a value on
RECURSIVE ParseElements(_, _, _)
ParseElements(toks, i, acc) ==
    IF i > Len(toks) THEN Err(acc, "EOF while parsing a list")
    ELSE IF toks[i] = "]" THEN Ok([values |-> acc, next |-> i + 1])
    ELSE IF toks[i] = "," /\ i + 1 <= Len(toks) /\ IsValue(toks[i + 1])
         THEN ParseElements(toks, i + 2, Append(acc, toks[i + 1]))
    ELSE Err(acc, "expected comma or closing bracket")

\* an array, from the token after "[" on
ParseArray(toks, i) ==
    IF i > Len(toks) THEN Err(<<>>, "EOF while parsing a list")
    ELSE IF toks[i] = "]" THEN Ok([values |-> <<>>, next |-> i + 1])
    ELSE IF IsValue(toks[i]) THEN ParseElements(toks, i + 1, <<toks[i]>>)
    ELSE Err(<<>>, "expected value")

\* the features of the FeatureCollection the file holds, or an error
ParseFeatureCollection(toks) ==
    IF Len(toks) < Len(Preamble) \/ SubSeq(toks, 1, Len(Preamble)) # Preamble
    THEN Err(<<>>, "expected FeatureCollection")
    ELSE LET a == ParseArray(toks, Len(Preamble) + 1)
         IN  IF ~a.ok THEN a
             ELSE IF a.v.next = Len(toks) /\ toks[a.v.next] = "}" THEN Ok(a.v.values)
             ELSE Err(a.v.values, "trailing characters or EOF")

\* ---- init_sink for GeoParquet: collect_columns, GeoParquetSink::new ----
\* column names, with their bytes (String::cmp compares them byte by byte)
NameBytes ==
    [name    |-> <<110, 97, 109, 101>>,
     lanes   |-> <<108, 97, 110, 101, 115>>,
     highway |-> <<104, 105, 103, 104, 119, 97, 121>>]

ColumnNames == DOMAIN NameBytes

ColumnTypeOf == [name |-> "String", lanes |-> "Integer", highway |-> "String"]

\* a.cmp(b) <= Equal, for byte sequences a and b
RECURSIVE BytesLe(_, _, _)
BytesLe(a, b, i) ==
    IF i > Len(a) THEN TRUE
    ELSE IF i > Len(b) THEN FALSE
    ELSE IF a[i] # b[i] THEN a[i] < b[i]
    ELSE BytesLe(a, b, i + 1)

NameLe(a, b) == BytesLe(NameBytes[a], NameBytes[b], 1)

\* the table's columns as the user declared them: up to three columns with
\* distinct names, in any order
DeclaredColumns ==
    {c \in UNION {[1..n -> ColumnNames] : n \in 0..3} :
        \A i, j \in 1..Len(c) : i # j => c[i] # c[j]}

ColumnSpec(name) == [name |-> name, col_type |-> ColumnTypeOf[name]]

\* columns.sort_by(|a, b| a.name.cmp(&b.name)): stable insertion of col
InsertByName(sorted, col) ==
    LET k == Cardinality({i \in 1..Len(sorted) : NameLe(sorted[i].name, col.name)})
    IN  SubSeq(sorted, 1, k) \o <<col>> \o SubSeq(sorted, k + 1, Len(sorted))

RECURSIVE SortByName(_, _)
SortByName(columns, i) ==
    IF i = 0 THEN <<>> ELSE InsertByName(SortByName(columns, i - 1), columns[i])

collect_columns(table_columns) ==
    SortByName([i \in 1..Len(table_columns) |-> ColumnSpec(table_columns[i])],
               Len(table_columns))

Field(name, data_type, nullable) ==
    [name |-> name, data_type |-> data_type, nullable |-> nullable]

DataTypeOf == [String |-> "Utf8", Integer |-> "Int64", Float |-> "Float64", Json |-> "Utf8"]

\* batch_size: 10 000 rows in the source, here few enough for a batch to fill
BatchSize == 2

GeoParquetSink_new(columns) ==
    [schema |-> <<Field("geometry", "Binary", FALSE)>>
                  \o [i \in 1..Len(columns) |->
                         Field(columns[i].name, DataTypeOf[columns[i].col_type], TRUE)]
                  \o <<Field("properties", "Utf8", FALSE)>>,
     columns |-> columns,
     column_buffers |-> [i \in 1..Len(columns) |-> <<>>],
     geometry_buf |-> <<>>,
     properties_buf |-> <<>>,
     batch_size |-> BatchSize,
     written |-> <<>>,
     writer |-> TRUE]

\* coerce_string, coerce_i64 on row.columns.get(name): a String that is no
\* number gives no integer
coerce(col_type, value) ==
    CASE ~value.some -> None
      [] col_type = "Integer" /\ value.v[1] = "String" -> None
      [] OTHER -> Some(value.v[2])

\* GeoParquetSink::append_columns
append_columns(self, row) ==
    [i \in 1..Len(self.columns) |->
        LET name == self.columns[i].name
            value == IF \E c \in row.columns : c[1] = name
                     THEN Some((CHOOSE c \in row.columns : c[1] = name)[2])
                     ELSE None
        IN  Append(self.column_buffers[i], coerce(self.columns[i].col_type, value))]

\* GeoParquetSink::flush: one record batch of the buffered rows is handed to
\* the writer and the buffers are cleared; outcome "flush_err" is a failure of
\* writer.write, which leaves the buffers as they are
flush(self, outcome) ==
    IF self.geometry_buf = <<>> THEN Ok(self)
    ELSE IF outcome = "flush_err" THEN Err(self, "parquet write error")
    ELSE Ok([self EXCEPT
                !.written = IF self.writer
                            THEN Append(self.written,
                                        [geometry |-> self.geometry_buf,
                                         columns |-> self.column_buffers,
                                         properties |-> self.properties_buf])
                            ELSE self.written,
                !.geometry_buf = <<>>,
                !.properties_buf = <<>>,
                !.column_buffers = [i \in 1..Len(self.columns) |-> <<>>]])

\* (variant: the batch is flushed once it holds more than batch_size rows)
GeoParquetSink_add_feature_FlushAbove(self, row, outcome) ==
    IF outcome = "err" THEN Err(self, "Failed to convert geometry to WKB")
    ELSE LET pushed == [self EXCEPT
                           !.geometry_buf = Append(self.geometry_buf, <<"wkb", row.geometry>>),
                           !.properties_buf = Append(self.properties_buf, ObjectJson(row.extras)),
                           !.column_buffers = append_columns(self, row)]
         IN  IF Len(pushed.geometry_buf) > pushed.batch_size THEN flush(pushed, outcome)
             ELSE Ok(pushed)

\* add_feature: outcome "err" is a failure of to_wkb, before anything is
\* buffered
GeoParquetSink_add_feature(self, row, outcome) ==
    IF outcome = "err" THEN Err(self, "Failed to convert geometry to WKB")
    ELSE LET pushed == [self EXCEPT
                           !.geometry_buf = Append(self.geometry_buf, <<"wkb", row.geometry>>),
                           !.properties_buf = Append(self.properties_buf, ObjectJson(row.extras)),
                           !.column_buffers = append_columns(self, row)]
         IN  IF Len(pushed.geometry_buf) >= pushed.batch_size THEN flush(pushed, outcome)
             ELSE Ok(pushed)

\* finish: flush the buffered rows, close the writer
GeoParquetSink_finish(self) ==
    LET flushed == flush(self, "ok")
    IN  Ok([flushed.v EXCEPT !.writer = FALSE])

\* ---- one sink from init_sink to finish ----
Formats == {"geojson", "geojsonl", "geoparquet"}

SinkInit ==
    /\ file_sink \in [st : {"config"}, format : Formats, declared : DeclaredColumns,
                       sink : {None}, added : {<<>>}]
    /\ block = NoBlock
    /\ rows = None
    /\ FunIdle
    /\ StoreInit
    /\ input = NoInput
    /\ PipeStart
    /\ ConvInit

\* init_sink(format, output, config)
InitSink ==
    /\ file_sink.st = "config"
    /\ file_sink' = [file_sink EXCEPT
            !.st = "open",
            !.sink = CASE file_sink.format = "geojson" -> GeoJsonSink_new
                       [] file_sink.format = "geojsonl" -> GeoJsonlSink_new
                       [] file_sink.format = "geoparquet" ->
                            GeoParquetSink_new(collect_columns(file_sink.declared))]
    /\ UNCHANGED <<conv, block, rows, funVars, storeVars, pipeVars>>

\* sink.add_feature(row); after an error the sink is not used again, as the
\* writer thread of run_pass returns at the first error.  A write of a record
\* batch can fail only in a call that fills the batch.
SinkAddFeature(row, outcome) ==
    /\ file_sink.st = "open"
    /\ Len(file_sink.added) < MaxFeatures
    /\ outcome = "flush_err" =>
            /\ file_sink.format = "geoparquet"
            /\ Len(file_sink.sink.geometry_buf) + 1 >= file_sink.sink.batch_size
    /\ LET r == CASE file_sink.format = "geojson" ->
                        GeoJsonSink_add_feature(file_sink.sink, row, outcome)
                  [] file_sink.format = "geojsonl" ->
                        GeoJsonlSink_add_feature(file_sink.sink, row, outcome)
                  [] file_sink.format = "geoparquet" ->
                        GeoParquetSink_add_feature(file_sink.sink, row, outcome)
       IN  file_sink' = [file_sink EXCEPT
                !.st = IF r.ok THEN "open" ELSE "failed",
                !.sink = r.v,
                !.added = IF r.ok THEN Append(file_sink.added, row) ELSE file_sink.added]
    /\ UNCHANGED <<conv, block, rows, funVars, storeVars, pipeVars>>

\* sink.finish()
SinkFinish ==
    /\ file_sink.st = "open"
    /\ LET r == CASE file_sink.format = "geojson" -> GeoJsonSink_finish(file_sink.sink)
                  [] file_sink.format = "geojsonl" ->
                        GeoJsonlSink_finish(file_sink.sink)
                  [] file_sink.format = "geoparquet" ->
                        GeoParquetSink_finish(file_sink.sink)
       IN  file_sink' = [file_sink EXCEPT !.st = "finished", !.sink = r.v]
    /\ UNCHANGED <<conv, block, rows, funVars, storeVars, pipeVars>>

SinkNext ==
    \/ InitSink
    \/ \E row \in SinkRows, outcome \in {"ok", "err", "flush_err"} :
            SinkAddFeature(row, outcome)
    \/ SinkFinish

(***************************************************************************)
(* Part 4.  Node cache mode selection (config/mod.rs, app/mod.rs).         *)
(***************************************************************************)
\* 1024 * 1024 * 1024
GiB == 1073741824

\* a u64 byte count as <<whole GiB, bytes below one GiB>>: the counts of
\* interest do not fit 32 bits
DENSE_THRESHOLD_BYTES == <<5, 0>>

\* str::to_ascii_lowercase on the bytes of the string
to_ascii_lowercase(s) ==
    [i \in 1..Len(s) |-> IF s[i] >= 65 /\ s[i] <= 90 THEN s[i] + 32 ELSE s[i]]

\* NodeCacheMode::from_str; the arms are the bytes of "auto", "sparse",
\* "dense", "mmap" and "memory"
NodeCacheMode_from_str(value) ==
    LET v == to_ascii_lowercase(value)
    IN  CASE v = <<97, 117, 116, 111>> -> Ok("Auto")
          [] v = <<115, 112, 97, 114, 115, 101>> -> Ok("Sparse")
          [] v = <<100, 101, 110, 115, 101>> \/ v = <<109, 109, 97, 112>> -> Ok("Dense")
          [] v = <<109, 101, 109, 111, 114, 121>> -> Ok("Memory")
          [] OTHER -> Err(value, "invalid node_cache_mode")

\* resolve_node_cache_mode(requested, input_path); `metadata` is what
\* std::fs::metadata(input_path).map(|m| m.len()) returned.  The label leaves
\* out the formatted size.
resolve_node_cache_mode_Above(requested, metadata) ==
    IF requested = "Auto"
    THEN LET file_size == IF metadata.ok THEN metadata.v ELSE <<0, 0>>
             ge == \/ file_size[1] > DENSE_THRESHOLD_BYTES[1]
                   \/ /\ file_size[1] = DENSE_THRESHOLD_BYTES[1]
                      /\ file_size[2] > DENSE_THRESHOLD_BYTES[2]
         IN  IF ge THEN <<"Dense", "dense (auto-selected)">>
             ELSE <<"Sparse", "sparse (auto-selected)">>
    ELSE <<requested, requested>>

resolve_node_cache_mode(requested, metadata) ==
    IF requested = "Auto"
    THEN LET file_size == IF metadata.ok THEN metadata.v ELSE <<0, 0>>
             ge == \/ file_size[1] > DENSE_THRESHOLD_BYTES[1]
                   \/ /\ file_size[1] = DENSE_THRESHOLD_BYTES[1]
                      /\ file_size[2] >= DENSE_THRESHOLD_BYTES[2]
         IN  IF ge THEN <<"Dense", "dense (auto-selected)">>
             ELSE <<"Sparse", "sparse (auto-selected)">>
    ELSE <<requested, requested>>

\* mode names: auto, AUTO, sparse, Sparse, dense, DENSE, mmap, MMAP, memory,
\* and three that name no mode: disk, "mmap " and the empty string
ModeNames ==
    { <<97, 117, 116, 111>>, <<65, 85, 84, 79>>,
      <<115, 112, 97, 114, 115, 101>>, <<83, 112, 97, 114, 115, 101>>,
      <<100, 101, 110, 115, 101>>, <<68, 69, 78, 83, 69>>,
      <<109, 109, 97, 112>>, <<77, 77, 65, 80>>,
      <<109, 101, 109, 111, 114, 121>>,
      <<100, 105, 115, 107>>, <<109, 109, 97, 112, 32>>, <<>> }

\* input sizes around the threshold, and an input whose metadata cannot be read
FileSizes ==
    { Ok(<<0, 0>>), Ok(<<4, GiB - 1>>), Ok(<<5, 0>>), Ok(<<5, 1>>), Ok(<<16, 0>>),
      Err(<<0, 0>>, "No such file or directory") }

ModeInit ==
    /\ cache_mode \in [st : {"arg"}, name : ModeNames, metadata : FileSizes,
                        requested : {"none"}, resolved : {"none"}, label : {"none"}]
    /\ dsl = [st |-> "none"]
    /\ progress = [st |-> "none"]
    /\ block = NoBlock
    /\ rows = None
    /\ file_sink = NoSink
    /\ StoreInit
    /\ input = NoInput
    /\ PipeStart
    /\ ConvInit

\* the mode name is parsed
ParseMode ==
    /\ cache_mode.st = "arg"
    /\ LET r == NodeCacheMode_from_str(cache_mode.name)
       IN  cache_mode' = IF r.ok
                         THEN [cache_mode EXCEPT !.st = "parsed", !.requested = r.v]
                         ELSE [cache_mode EXCEPT !.st = "rejected"]
    /\ UNCHANGED <<conv, block, rows, file_sink, dsl, progress, storeVars, pipeVars>>

\* process_pbf resolves the requested mode against the input file
ResolveMode ==
    /\ cache_mode.st = "parsed"
    /\ LET r == resolve_node_cache_mode(cache_mode.requested, cache_mode.metadata)
       IN  cache_mode' = [cache_mode EXCEPT !.st = "resolved", !.resolved = r[1],
                                            !.label = r[2]]
    /\ UNCHANGED <<conv, block, rows, file_sink, dsl, progress, storeVars, pipeVars>>

ModeNext ==
    \/ ParseMode
    \/ ResolveMode

(***************************************************************************)
(* Part 5.  The filter DSL (dsl/ast.rs, dsl/lexer.rs, dsl/parser.rs,       *)
(* dsl/eval.rs).  A filter text is given lexeme by lexeme, the white space *)
(* between lexemes being skipped by the lexer; no identifier of the texts  *)
(* below holds a star, so no value is a glob pattern.                      *)
(***************************************************************************)
\* ---- lexer::Token ----
Tok(t) == [t |-> t]
Ident(s) == [t |-> "Ident", s |-> s]
Number(n) == [t |-> "Number", n |-> n]

\* the comparison tokens, named as the CompareOp each stands for
CompareOps == {"Eq", "Ne", "Lt", "Le", "Gt", "Ge"}

\* tokenize: the tokens of the text, then Eof
tokenize(text) == Append(text, Tok("Eof"))

\* ---- ast::FilterAst, ast::TagValue ----
True == [k |-> "True"]
TagExists(key, negated) == [k |-> "TagExists", key |-> key, negated |-> negated]
TagMatch(key, values) == [k |-> "TagMatch", key |-> key, values |-> values]
NumericCompare(key, op, value) ==
    [k |-> "NumericCompare", key |-> key, op |-> op, value |-> value]
And(exprs) == [k |-> "And", exprs |-> exprs]
Or(exprs) == [k |-> "Or", exprs |-> exprs]
Not(inner) == [k |-> "Not", inner |-> inner]
Exact(s) == [k |-> "Exact", s |-> s]
AnyValue == [k |-> "Any"]

\* FilterAst::simplify
RECURSIVE simplify(_)
simplify(ast) ==
    LET \* the loop over exprs: flat after the elements from i on
        RECURSIVE Flatten(_, _, _)
        Flatten(exprs, i, flat) ==
            IF i > Len(exprs) THEN flat
            ELSE LET simplified == simplify(exprs[i])
                 IN  Flatten(exprs, i + 1,
                        CASE simplified.k = ast.k -> flat \o simplified.exprs
                          [] simplified.k = "True" /\ ast.k = "And" -> flat
                          [] OTHER -> Append(flat, simplified))
    IN  CASE ast.k = "And" ->
               LET flat == Flatten(ast.exprs, 1, <<>>)
               IN  CASE Len(flat) = 0 -> True
                     [] Len(flat) = 1 -> flat[1]
                     [] OTHER -> And(flat)
          [] ast.k = "Or" ->
               LET flat == Flatten(ast.exprs, 1, <<>>)
               IN  CASE Len(flat) = 0 -> True
                     [] Len(flat) = 1 -> flat[1]
                     [] OTHER -> Or(flat)
          [] ast.k = "Not" -> Not(simplify(ast.inner))
          [] OTHER -> ast

\* ---- parser::Parser; pos counts from 0 as in the source ----
\* self.tokens.get(pos), Eof when there is none
TokenAt(tokens, pos) == IF pos < Len(tokens) THEN tokens[pos + 1] ELSE Tok("Eof")

Parsed(v, pos) == [ok |-> TRUE, v |-> v, pos |-> pos]
ParseErr(msg, pos) == [ok |-> FALSE, err |-> msg, pos |-> pos]

\* let r = <call>; <rest>: the call is made once and its result named
Bind(r, Rest(_)) == Rest(r)

\* Parser::parse_value
parse_value(tokens, pos) ==
    LET tok == TokenAt(tokens, pos)
    IN  CASE tok.t = "Star" -> Parsed(AnyValue, pos + 1)
          [] tok.t = "Ident" -> Parsed(Exact(tok.s), pos + 1)
          [] tok.t = "Number" -> Parsed(Exact(ToString(tok.n)), pos + 1)
          [] OTHER -> ParseErr("Expected value", pos + 1)

\* Parser::parse_value_list
parse_value_list(tokens, pos0) ==
    LET RECURSIVE Loop(_, _)
        Loop(values, pos) ==
            IF TokenAt(tokens, pos).t # "Or" THEN Parsed(values, pos)
            ELSE IF /\ TokenAt(tokens, pos + 1).t = "Ident"
                    /\ TokenAt(tokens, pos + 2).t \in CompareOps
            THEN Parsed(values, pos)
            ELSE Bind(parse_value(tokens, pos + 1),
                      LAMBDA v : IF v.ok THEN Loop(Append(values, v.v), v.pos) ELSE v)
    IN  Bind(parse_value(tokens, pos0),
             LAMBDA first : IF first.ok THEN Loop(<<first.v>>, first.pos) ELSE first)

\* Parser::parse_tag_expr
parse_tag_expr(tokens, pos) ==
    LET key == TokenAt(tokens, pos)
        op == TokenAt(tokens, pos + 1).t
    IN  CASE key.t # "Ident" -> ParseErr("Expected identifier", pos + 1)
          [] op \notin CompareOps -> Parsed(TagExists(key.s, FALSE), pos + 1)
          [] op = "Eq" ->
               Bind(parse_value_list(tokens, pos + 2),
                    LAMBDA values :
                        IF values.ok THEN Parsed(TagMatch(key.s, values.v), values.pos)
                        ELSE values)
          [] OTHER ->
               LET n == TokenAt(tokens, pos + 2)
               IN  IF n.t = "Number"
                   THEN Parsed(NumericCompare(key.s, op, n.n), pos + 3)
                   ELSE ParseErr("Expected number", pos + 3)

RECURSIVE parse_or_expr(_, _)

\* Parser::parse_primary
parse_primary(tokens, pos) ==
    LET tok == TokenAt(tokens, pos)
    IN  CASE tok.t = "LParen" ->
               Bind(parse_or_expr(tokens, pos + 1),
                    LAMBDA inner :
                        CASE ~inner.ok -> inner
                          [] TokenAt(tokens, inner.pos).t = "RParen" ->
                               Parsed(inner.v, inner.pos + 1)
                          [] OTHER -> ParseErr("Expected RParen", inner.pos + 1))
          [] tok.t = "Ident" -> parse_tag_expr(tokens, pos)
          [] tok.t = "Eof" -> Parsed(True, pos)
          [] OTHER -> ParseErr("Unexpected token", pos)

\* Parser::parse_unary_expr
RECURSIVE parse_unary_expr(_, _)
parse_unary_expr(tokens, pos) ==
    IF TokenAt(tokens, pos).t # "Not" THEN parse_primary(tokens, pos)
    ELSE LET key == TokenAt(tokens, pos + 1)
             next_tok == TokenAt(tokens, pos + 2).t
         IN  IF key.t = "Ident" /\ next_tok \in {"And", "Or", "RParen", "Eof"}
             THEN Parsed(TagExists(key.s, TRUE), pos + 2)
             ELSE Bind(IF key.t = "Ident" THEN parse_primary(tokens, pos + 1)
                       ELSE parse_unary_expr(tokens, pos + 1),
                       LAMBDA inner : IF inner.ok THEN Parsed(Not(inner.v), inner.pos)
                                      ELSE inner)

\* Parser::parse_and_expr
parse_and_expr(tokens, pos0) ==
    LET RECURSIVE Loop(_, _)
        Loop(left, pos) ==
            IF TokenAt(tokens, pos).t # "And" THEN Parsed(simplify(left), pos)
            ELSE Bind(parse_unary_expr(tokens, pos + 1),
                      LAMBDA right :
                          IF right.ok THEN Loop(And(<<left, right.v>>), right.pos)
                          ELSE right)
    IN  Bind(parse_unary_expr(tokens, pos0),
             LAMBDA first : IF first.ok THEN Loop(first.v, first.pos) ELSE first)

\* Parser::parse_or_expr (parse_filter of the parser)
parse_or_expr(tokens, pos0) ==
    LET RECURSIVE Loop(_, _)
        Loop(left, pos) ==
            IF TokenAt(tokens, pos).t # "Or" THEN Parsed(simplify(left), pos)
            ELSE Bind(parse_and_expr(tokens, pos + 1),
                      LAMBDA right :
                          IF right.ok THEN Loop(Or(<<left, right.v>>), right.pos)
                          ELSE right)
    IN  Bind(parse_and_expr(tokens, pos0),
             LAMBDA first : IF first.ok THEN Loop(first.v, first.pos) ELSE first)

\* dsl::parse_filter
parse_filter(text) ==
    IF text = <<>> THEN Parsed(True, 0)
    ELSE Bind(parse_or_expr(tokenize(text), 0),
              LAMBDA ast :
                  CASE ~ast.ok -> ast
                    [] TokenAt(tokenize(text), ast.pos).t # "Eof" ->
                         ParseErr("Unexpected token after expression", ast.pos)
                    [] OTHER -> ast)

\* ---- eval ----
\* eval::parse_numeric on the tag values in use: the decimal numbers parse,
\* the words do not
parse_numeric(s) ==
    IF \E n \in 0..9 : ToString(n) = s
    THEN Some(CHOOSE n \in 0..9 : ToString(n) = s)
    ELSE None

\* eval::compare
compare(op, left, right) ==
    CASE op = "Eq" -> left = right
      [] op = "Ne" -> left # right
      [] op = "Lt" -> left < right
      [] op = "Le" -> left <= right
      [] op = "Gt" -> left > right
      [] op = "Ge" -> left >= right

\* eval::match_value
match_value(pattern, actual) ==
    CASE pattern.k = "Any" -> TRUE
      [] pattern.k = "Exact" -> actual = pattern.s

\* eval::evaluate_filter; tags is the HashMap as a set of <<key, value>>
\* pairs, one per key
RECURSIVE evaluate_filter(_, _)
evaluate_filter(ast, tags) ==
    LET \* tags.get(key)
        tag(key) == IF \E p \in tags : p[1] = key
                    THEN Some((CHOOSE p \in tags : p[1] = key)[2])
                    ELSE None
    IN  CASE ast.k = "True" -> TRUE
          [] ast.k = "TagExists" ->
               IF ast.negated THEN ~tag(ast.key).some ELSE tag(ast.key).some
          [] ast.k = "TagMatch" ->
               /\ tag(ast.key).some
               /\ \E i \in 1..Len(ast.values) :
                      match_value(ast.values[i], tag(ast.key).v)
          [] ast.k = "NumericCompare" ->
               /\ tag(ast.key).some
               /\ parse_numeric(tag(ast.key).v).some
               /\ compare(ast.op, parse_numeric(tag(ast.key).v).v, ast.value)
          [] ast.k = "And" ->
               \A i \in 1..Len(ast.exprs) : evaluate_filter(ast.exprs[i], tags)
          [] ast.k = "Or" ->
               \E i \in 1..Len(ast.exprs) : evaluate_filter(ast.exprs[i], tags)
          [] ast.k = "Not" -> ~evaluate_filter(ast.inner, tags)

\* ---- one filter text parsed and matched against one tag set ----
\* name; !name; highway=primary; highway=primary|secondary; lanes>=2;
\* name & lanes>=2; (name); !(highway=primary); highway=*
FilterTexts ==
    { <<Ident("name")>>,
      <<Tok("Not"), Ident("name")>>,
      <<Ident("highway"), Tok("Eq"), Ident("primary")>>,
      <<Ident("highway"), Tok("Eq"), Ident("primary"), Tok("Or"), Ident("secondary")>>,
      <<Ident("lanes"), Tok("Ge"), Number(2)>>,
      <<Ident("name"), Tok("And"), Ident("lanes"), Tok("Ge"), Number(2)>>,
      <<Tok("LParen"), Ident("name"), Tok("RParen")>>,
      <<Tok("Not"), Tok("LParen"), Ident("highway"), Tok("Eq"), Ident("primary"),
        Tok("RParen")>>,
      <<Ident("highway"), Tok("Eq"), Tok("Star")>> }

TagSets ==
    { {},
      {<<"name", "secondary">>},
      {<<"highway", "primary">>},
      {<<"highway", "secondary">>, <<"lanes", "2">>},
      {<<"highway", "name">>},
      {<<"name", "x">>, <<"lanes", "3">>} }

NoFilter == [ok |-> FALSE, err |-> "none", pos |-> 0]

\* ---- one filter AST simplified, both matched against one tag set ----
\* the ASTs convert_structured_filter and the parser hand to simplify: tag
\* tests and True, under at most two levels of And, Or (of no, one or two
\* expressions) and Not
AstLeaves == {True, TagExists("name", FALSE), TagMatch("highway", <<Exact("primary")>>)}

AstLists(S) == {<<>>} \cup {<<a>> : a \in S} \cup {<<a, b>> : a \in S, b \in S}

AstNest(S) ==
    S \cup {And(l) : l \in AstLists(S)} \cup {Or(l) : l \in AstLists(S)}
      \cup {Not(a) : a \in S}

Asts == AstNest(AstNest(AstLeaves))

DslInit ==
    /\ \/ dsl \in [st : {"text"}, e1 : FilterTexts, e2 : FilterTexts, tags : TagSets,
                    whole : {NoFilter}, left : {NoFilter}, right : {NoFilter},
                    ast : {True}, simplified : {True}, matches : {<<>>}]
       \/ dsl \in [st : {"ast"}, e1 : {<<>>}, e2 : {<<>>}, tags : TagSets,
                    whole : {NoFilter}, left : {NoFilter}, right : {NoFilter},
                    ast : Asts, simplified : {True}, matches : {<<>>}]
    /\ cache_mode = [st |-> "none"]
    /\ progress = [st |-> "none"]
    /\ block = NoBlock
    /\ rows = None
    /\ file_sink = NoSink
    /\ StoreInit
    /\ input = NoInput
    /\ PipeStart
    /\ ConvInit

\* parse_filter on the text e1 | e2 and on each side
DslParse ==
    /\ dsl.st = "text"
    /\ dsl' = [dsl EXCEPT !.st = "parsed",
                          !.whole = parse_filter(dsl.e1 \o <<Tok("Or")>> \o dsl.e2),
                          !.left = parse_filter(dsl.e1),
                          !.right = parse_filter(dsl.e2)]
    /\ UNCHANGED <<conv, block, rows, file_sink, cache_mode, progress, storeVars,
                   pipeVars>>

\* evaluate_filter on each filter that parsed; a filter that did not parse
\* matches nothing, the config being rejected
DslMatch ==
    /\ dsl.st = "parsed"
    /\ dsl' = [dsl EXCEPT !.st = "matched",
                  !.matches = [f \in {"whole", "left", "right"} |->
                                  dsl[f].ok /\ evaluate_filter(dsl[f].v, dsl.tags)]]
    /\ UNCHANGED <<conv, block, rows, file_sink, cache_mode, progress, storeVars,
                   pipeVars>>

\* ast.simplify(), as convert_structured_filter calls it
DslSimplify ==
    /\ dsl.st = "ast"
    /\ dsl' = [dsl EXCEPT !.st = "simplified", !.simplified = simplify(dsl.ast)]
    /\ UNCHANGED <<conv, block, rows, file_sink, cache_mode, progress, storeVars,
                   pipeVars>>

\* evaluate_filter on the AST and on its simplified form
DslMatchSimplified ==
    /\ dsl.st = "simplified"
    /\ dsl' = [dsl EXCEPT !.st = "compared",
                  !.matches = [ast |-> evaluate_filter(dsl.ast, dsl.tags),
                               simplified |-> evaluate_filter(dsl.simplified, dsl.tags)]]
    /\ UNCHANGED <<conv, block, rows, file_sink, cache_mode, progress, storeVars,
                   pipeVars>>

DslNext ==
    \/ DslParse
    \/ DslMatch
    \/ DslSimplify
    \/ DslMatchSimplified

(***************************************************************************)
(* Part 6.  ProgressCounter (utils.rs), incremented by concurrent threads. *)
(***************************************************************************)
\* inc calls made by one thread
MaxIncs == 2

\* the threads that hold the counter: the decoder closures of run_pass
Incrementers == {"decoder A", "decoder B"}

\* the interval and delta arguments in use
Intervals == {0, 1, 2, 4}
Deltas == {1, 3}

\* ProgressCounter::new(label, interval): the interval is clamped, 0 is printed
ProgressCounter_new(interval) ==
    [interval |-> IF interval >= 1 THEN interval ELSE 1, count |-> 0, out |-> <<0>>]

\* (variant: a line is printed when the new count is a multiple of the interval)
crosses_OnMultiple(self, prev, delta) == (prev + delta) % self.interval = 0

\* inc: prev / self.interval < current / self.interval
crosses(self, prev, delta) == prev \div self.interval < (prev + delta) \div self.interval

IdleCaller == [pc |-> "idle", calls |-> 0, prev |-> 0, delta |-> 0, printed |-> FALSE]

ProgressInit ==
    /\ progress \in [st : {"counting"}, arg : Intervals, self : {None},
                      callers : {[t \in Incrementers |-> IdleCaller]}, sum : {0}]
    /\ cache_mode = [st |-> "none"]
    /\ dsl = [st |-> "none"]
    /\ block = NoBlock
    /\ rows = None
    /\ file_sink = NoSink
    /\ StoreInit
    /\ input = NoInput
    /\ PipeStart
    /\ ConvInit

\* ProgressCounter::new
ProgressNew ==
    /\ progress.st = "counting"
    /\ ~progress.self.some
    /\ progress' = [progress EXCEPT !.self = Some(ProgressCounter_new(progress.arg))]
    /\ UNCHANGED <<conv, block, rows, file_sink, cache_mode, dsl, storeVars, pipeVars>>

\* inc, first step: self.count.fetch_add(delta, SeqCst), one atomic step
IncFetchAdd(t, delta) ==
    /\ progress.st = "counting"
    /\ progress.self.some
    /\ progress.callers[t].pc = "idle"
    /\ progress.callers[t].calls < MaxIncs
    /\ progress' = [progress EXCEPT
            !.self.v.count = @ + delta,
            !.sum = @ + delta,
            !.callers[t] = [pc |-> "fetched", calls |-> @.calls + 1,
                            prev |-> progress.self.v.count, delta |-> delta,
                            printed |-> FALSE]]
    /\ UNCHANGED <<conv, block, rows, file_sink, cache_mode, dsl, storeVars, pipeVars>>

\* inc, second step: the comparison and the print
IncPrint(t) ==
    /\ progress.callers[t].pc = "fetched"
    /\ LET c == progress.callers[t]
           p == crosses(progress.self.v, c.prev, c.delta)
       IN  progress' = [progress EXCEPT
                !.self.v.out = IF p THEN Append(@, c.prev + c.delta) ELSE @,
                !.callers[t].pc = "idle",
                !.callers[t].printed = p]
    /\ UNCHANGED <<conv, block, rows, file_sink, cache_mode, dsl, storeVars, pipeVars>>

\* finish, once the threads that increment have returned: the count is
\* loaded and printed
ProgressFinish ==
    /\ progress.st = "counting"
    /\ progress.self.some
    /\ \A t \in Incrementers : progress.callers[t].pc = "idle"
    /\ progress' = [progress EXCEPT !.st = "finished",
                                    !.self.v.out = Append(@, progress.self.v.count)]
    /\ UNCHANGED <<conv, block, rows, file_sink, cache_mode, dsl, storeVars, pipeVars>>

ProgressNext ==
    \/ ProgressNew
    \/ \E t \in Incrementers, delta \in Deltas : IncFetchAdd(t, delta)
    \/ \E t \in Incrementers : IncPrint(t)
    \/ ProgressFinish

\* ---- specifications ----
\* the store harness alone; the pipeline stays in its initial state
Init ==
    /\ StoreInit
    /\ input = NoInput
    /\ PipeStart
    /\ UnitIdle
    /\ ConvInit

StoreNext ==
    \/ \E id \in NodeIds, c \in Coords :
            StorePut(id, c) /\ UNCHANGED <<pipeVars, unitVars>>
    \/ StoreFinalize /\ UNCHANGED <<pipeVars, unitVars>>
    \/ \E id \in NodeIds : StoreGet(id) /\ UNCHANGED <<pipeVars, unitVars>>

Spec == Init /\ [][StoreNext]_vars

\* a run of process_pbf on one input; the store harness stays idle
PipeSpec == PipeInit /\ [][PipeNext]_vars

\* every thread that can take a step eventually takes one
PipeFairSpec == PipeSpec /\ WF_vars(PipeNext)

\* one block processed against one node store
BlockSpec == BlockInit /\ [][BlockNext]_vars

\* one sink, from init_sink to finish
SinkSpec == SinkInit /\ [][SinkNext]_vars

\* one node cache mode option, parsed and resolved
ModeSpec == ModeInit /\ [][ModeNext]_vars

\* one filter, parsed and matched against one tag set
DslSpec == DslInit /\ [][DslNext]_vars

\* one ProgressCounter incremented by two threads
ProgressSpec == ProgressInit /\ [][ProgressNext]_vars

(***************************************************************************)
(* Properties of the pipeline, under PipeSpec and PipeFairSpec.            *)
(***************************************************************************)
PhaseStep ==
    \/ node_store'.phase = node_store.phase
    \/ node_store.phase = "None" /\ node_store'.phase = "Writing"
    \/ node_store.phase = "Writing" /\ node_store'.phase = "Finalized"

\* a thread that may still call put / a worker that may call get
PutterAlive == node_store.phase = "Writing" /\ writer.st \in {"recv", "batch"}
GetterAlive == pass = "pass2" /\ \E w \in Workers : workers[w].st = "blob"

\* C7: the store goes None -> Writing -> Finalized, once each; when it is
\* finalized, pass 1 has returned Ok with its writer joined and every node sent
\* has been put; get is called only on the finalized store; after finalize no
\* put happens and the store no longer changes; a thread that can put and a
\* worker that can get never exist together.
C7_Lifecycle ==
    /\ [][PhaseStep]_vars
    /\ [](node_store.phase = "Finalized" =>
            /\ Len(passes) >= 1
            /\ passes[1].pass = "pass1"
            /\ ~passes[1].writer_join.panicked
            /\ passes[1].ret = Ok(hist.puts)
            /\ hist.puts = hist.sent)
    /\ [][hist.gets' # hist.gets =>
            node_store.phase = "Finalized" /\ hist.puts' = hist.puts]_vars
    /\ [][node_store.phase = "Finalized" =>
            hist.puts' = hist.puts /\ node_store' = node_store]_vars
    /\ [](~(PutterAlive /\ GetterAlive))

\* a two-pass run that ended Ok: nodes were put in pass 1, the store was
\* finalized, pass 2 called get and wrote rows
C7_Witness ==
    /\ pc = "done"
    /\ result.ok
    /\ node_store.phase = "Finalized"
    /\ hist.puts >= 2
    /\ hist.gets >= 2
    /\ Len(passes) = 2

\* what C8 says of one pass p that returned ret, given its writer's join
\* result wj and its decode side's result dr
PrecedenceHolds(p, wj, dr, ret) ==
    /\ ret.ok => (~wj.panicked /\ wj.r.ok /\ dr.ok)
    /\ (~wj.panicked /\ ~wj.r.ok) =>
            /\ ~ret.ok
            /\ ret.err \in {wj.r.err, <<DisconnectContext(p)>> \o wj.r.err}
    /\ wj.panicked =>
            /\ ~ret.ok
            /\ ret.err = <<PanicContext(p), wj.msg>>
    /\ (~ret.ok /\ ~dr.ok /\ ret.err = dr.err) => (~wj.panicked /\ wj.r.ok)

\* join results and decode results a pass can meet
JoinResults ==
    {JoinOk(Ok(n)) : n \in 0..2}
        \cup {JoinOk(Failure(e)) : e \in {<<"sink error">>,
                                          <<"Pipeline: Failed writing node", "UnsortedIds">>,
                                          <<"Pipeline: Failed writing node", "OverCapacity">>}}
        \cup {JoinPanic(m) : m \in {"sink panic", "unknown panic"}}

DecodeResults(p) == {Ok(None), Failure(DecodeError), Failure(SendError(p))}

\* C8: of every pass that returned, and of the value either pass function
\* computes from any join result and decode result: Ok only if the writer
\* thread and the decode side both succeeded; a writer error is returned (alone
\* or under the disconnect context) whatever the decode result; a writer panic
\* gives the synthetic error carrying the panic message; the decode side's
\* error is returned only when the writer succeeded.
C8_ErrorPrecedence ==
    /\ \A i \in 1..Len(passes) :
          PrecedenceHolds(passes[i].pass, passes[i].writer_join,
                          passes[i].decode_result, passes[i].ret)
    /\ \A p \in {"pass1", "pass2", "nodes_only"} :
          \A wj \in JoinResults : \A dr \in DecodeResults(p) :
              PrecedenceHolds(p, wj, dr,
                  pass_return(wj, dr, DisconnectContext(p), PanicContext(p)))

\* pass 2 returned after its writer failed and a decoder's send failed as well
C8_Witness ==
    \E i \in 1..Len(passes) :
        /\ passes[i].pass = "pass2"
        /\ ~passes[i].writer_join.panicked
        /\ ~passes[i].writer_join.r.ok
        /\ ~passes[i].decode_result.ok
        /\ passes[i].ret.err = <<DisconnectContext("pass2"), "sink error">>

WriterFailed == writer.st = "done" /\ (writer.res.panicked \/ ~writer.res.r.ok)

\* C9: once the writer has failed its receiver is gone, it makes no further
\* put or add_feature call, no send succeeds, a pending send ends with the
\* send error, and the run returns an error; once the decode side has returned
\* the senders are gone and the writer terminates, having consumed every item
\* sent if it ends Ok; every run terminates.
C9_FailurePropagates ==
    /\ [](WriterFailed => (~chan.rx /\ chan.q = <<>>))
    /\ [][WriterFailed =>
            /\ hist.puts' = hist.puts
            /\ sink.calls' = sink.calls
            /\ chan'.q = <<>>
            /\ \A w \in Workers :
                  (workers[w].st = "send" /\ workers'[w].st # "send") =>
                        SendError(pass) \in decode_errs']_vars
    /\ WriterFailed ~> (pc = "done" /\ ~result.ok)
    /\ [](pc = "join" => ~chan.tx)
    /\ (pc = "join") ~> (writer.st = "done")
    /\ []((writer.st = "done" /\ ~WriterFailed) =>
            /\ chan.q = <<>>
            /\ ~chan.tx
            /\ writer.res.r.v = IF pass = "pass1" THEN hist.sent ELSE hist.rows_sent)
    /\ <>(pc = "done")

\* a run that ended after the writer failed while a decoder sat in a send on
\* the full channel
C9_Witness ==
    /\ pc = "done"
    /\ ~result.ok
    /\ WriterFailed
    /\ hist.woken > 0
    /\ \E i \in 1..Len(passes) : ~passes[i].decode_result.ok

\* C10: when run_pass returns Ok(n), n is the number of add_feature calls the
\* sink received.
C10_CountEqualsCalls ==
    \A i \in 1..Len(passes) :
        (passes[i].pass \in {"pass2", "nodes_only"} /\ passes[i].ret.ok) =>
            /\ passes[i].ret.v = sink.calls
            /\ passes[i].ret.v = Len(sink.rows)

\* pass 2 returned Ok(3) after a batch of two rows and a batch of one
C10_Witness ==
    /\ pc = "done"
    /\ result.ok
    /\ result.v = 3
    /\ sink.calls = 3
    /\ hist.rows_sent = 3
    /\ passes[Len(passes)].pass = "pass2"

(***************************************************************************)
(* Properties of process_block_collect, under BlockSpec.                   *)
(***************************************************************************)
\* the rows built from element e
RowsOf(e) == SelectSeq(rows.v, LAMBDA r : r.t = e.t /\ r.id = e.id)

\* the references of a way the store resolves, in the way's order
ResolvedRefs(e) == SelectSeq(e.refs, LAMBDA id : get(block.store, id).some)

\* node, dense node or way e passes the geometry-kind gate and the filter
PassesGate(e) ==
    /\ e.matches
    /\ \/ e.t \in {"node", "dense"} /\ block.config.node
       \/ e.t = "way" /\ block.config.way.enabled

\* C11 as stated: one row for each element that passes the geometry-kind gate
\* and the filter, none for any other element.
C11_OneRowPerPassingElement ==
    block.stage = "done" =>
        \A i \in 1..Len(block.elements) :
            Len(RowsOf(block.elements[i])) = IF PassesGate(block.elements[i]) THEN 1 ELSE 0

\* C11 amended: one row for each node or dense node that passes the node gate
\* and the filter, one row for each way that passes the way gate and the
\* filter and has at least two references the store resolves, none for any
\* other element, and every row comes from an element of the block.
C11_OneRowPerPassingResolvedElement ==
    block.stage = "done" =>
        /\ rows.ok
        /\ \A i \in 1..Len(block.elements) :
              LET e == block.elements[i]
              IN  Len(RowsOf(e)) =
                    IF PassesGate(e) /\ (e.t = "way" => Len(ResolvedRefs(e)) >= 2)
                    THEN 1 ELSE 0
        /\ \A k \in 1..Len(rows.v) :
              \E i \in 1..Len(block.elements) :
                  /\ block.elements[i].t = rows.v[k].t
                  /\ block.elements[i].id = rows.v[k].id

\* a block gave one row for the way with three resolved references and none
\* for the way that passes the gate and the filter with a single resolved
\* reference, for the way the filter rejects and for the rejected dense node
C11_Witness ==
    /\ block.stage = "done"
    /\ block.elements = BlockRing
    /\ block.nodes = << <<0, CoordA>>, <<1, CoordB>> >>
    /\ block.config.node
    /\ PassesGate(block.elements[1])
    /\ PassesGate(block.elements[2])
    /\ Len(ResolvedRefs(block.elements[2])) = 1
    /\ Len(rows.v) = 1
    /\ rows.v[1].id = 7
    /\ Len(rows.v[1].geometry) = 3

\* the row's coordinate sequence is a ring
IsRing(row) == row.geometry[1] = row.geometry[Len(row.geometry)]

\* the geometry kind each setting stands for
KindOf == [Polygon |-> "Polygon", Centroid |-> "Point", Linestring |-> "LineString"]

\* C12: the geometry kind of every way row is the one closed_way stands for
\* when the row's coordinate sequence is a ring and the one way.mode stands
\* for otherwise; a ring under closed_way = Centroid is a Point.
C12_WayGeometryKind ==
    block.stage = "done" =>
        \A k \in 1..Len(rows.v) :
            rows.v[k].t = "way" =>
                /\ rows.v[k].kind = IF IsRing(rows.v[k])
                                    THEN KindOf[block.config.closed_way]
                                    ELSE KindOf[block.config.way.mode]
                /\ (IsRing(rows.v[k]) /\ block.config.closed_way = "Centroid") =>
                        rows.v[k].kind = "Point"

\* a ring became a Point under closed_way = Centroid although way.mode is
\* Polygon, next to an open way that became a Polygon
C12_Witness ==
    /\ block.stage = "done"
    /\ block.config.closed_way = "Centroid"
    /\ block.config.way = Enabled("Polygon")
    /\ \E k \in 1..Len(rows.v) :
          rows.v[k].t = "way" /\ IsRing(rows.v[k]) /\ rows.v[k].kind = "Point"
    /\ \E k \in 1..Len(rows.v) :
          rows.v[k].t = "way" /\ ~IsRing(rows.v[k]) /\ rows.v[k].kind = "Polygon"

\* C13: process_block_collect returns Ok; a way has a row only if at least two
\* of its references resolve; the row's coordinates are those of the resolved
\* references in the way's order, the others left out; every way geometry has
\* at least two coordinates; a ring is a Polygon only under closed_way =
\* Polygon.
C13_WayNeedsTwoCoords ==
    block.stage = "done" =>
        /\ rows.ok
        /\ \A i \in 1..Len(block.elements) :
              LET e == block.elements[i]
              IN  e.t = "way" =>
                    /\ RowsOf(e) # <<>> => Len(ResolvedRefs(e)) >= 2
                    /\ \A k \in 1..Len(RowsOf(e)) :
                          /\ Len(RowsOf(e)[k].geometry) = Len(ResolvedRefs(e))
                          /\ \A n \in 1..Len(ResolvedRefs(e)) :
                                RowsOf(e)[k].geometry[n] =
                                    get(block.store, ResolvedRefs(e)[n]).v
        /\ \A k \in 1..Len(rows.v) :
              rows.v[k].t = "way" =>
                  /\ Len(rows.v[k].geometry) >= 2
                  /\ (IsRing(rows.v[k]) /\ rows.v[k].kind = "Polygon") =>
                        block.config.closed_way = "Polygon"

\* of three ways with references missing from the store, one was dropped with
\* a single resolved reference and one gave a row from two of its three
\* references
C13_Witness ==
    /\ block.stage = "done"
    /\ block.elements = BlockPartial
    /\ block.mode = "Memory"
    /\ block.config.way.enabled
    /\ Len(rows.v) = 1
    /\ rows.v[1].id = 7
    /\ Len(rows.v[1].geometry) = 2
    /\ IsRing(rows.v[1])

\* ---- C14 ----
\* the blob of the input file an emitted row comes from, and the position of
\* its element in that blob
BlobOf(row) ==
    CHOOSE b \in 1..Len(input.file) :
        \E i \in 1..Len(input.file[b].elements) :
            input.file[b].elements[i].t = row.t /\ input.file[b].elements[i].id = row.id

ElementIndex(row) ==
    CHOOSE i \in 1..Len(input.file[BlobOf(row)].elements) :
        /\ input.file[BlobOf(row)].elements[i].t = row.t
        /\ input.file[BlobOf(row)].elements[i].id = row.id

RowsOfBlob(b) == SelectSeq(sink.rows, LAMBDA r : BlobOf(r) = b)

IsPrefix(p, q) == Len(p) <= Len(q) /\ SubSeq(q, 1, Len(p)) = p

\* C14: in pass 2 the rows the sink has received from one block are in the
\* block's element order and contiguous, they are the first rows of the batch
\* process_block_collect returns for that block, and all of it once the pass
\* has returned Ok with the block's rows present.
C14_BlockOrderKept ==
    pass = "pass2" =>
        /\ \A i, j \in 1..Len(sink.rows) :
              (i < j /\ BlobOf(sink.rows[i]) = BlobOf(sink.rows[j])) =>
                  /\ ElementIndex(sink.rows[i]) < ElementIndex(sink.rows[j])
                  /\ \A k \in i..j : BlobOf(sink.rows[k]) = BlobOf(sink.rows[i])
        /\ \A b \in 1..Len(input.file) :
              /\ IsPrefix(RowsOfBlob(b),
                          process_block_collect(input.file[b].elements, input.config,
                                                node_store.v, 1))
              /\ (pc = "done" /\ result.ok) =>
                    RowsOfBlob(b) = process_block_collect(input.file[b].elements,
                                                          input.config, node_store.v, 1)

\* pass 2 wrote the two rows of the third blob, in element order, before the
\* row of the first blob
C14_Witness ==
    /\ pass = "pass2"
    /\ pc = "done"
    /\ result.ok
    /\ Len(sink.rows) = 3
    /\ BlobOf(sink.rows[1]) = 3
    /\ BlobOf(sink.rows[2]) = 3
    /\ sink.rows[1].t = "node"
    /\ sink.rows[2].t = "way"
    /\ BlobOf(sink.rows[3]) = 1

\* ---- C15 ----
AnyPassFailed == \E i \in 1..Len(passes) : ~passes[i].ret.ok

\* C15: main calls sink.finish() at most once, only after process_pbf has
\* returned Ok (the emitting pass returned Ok, the writer thread has ended
\* and released the sink), never after a failed pass, and no add_feature
\* follows it; if finish returns an error main returns an error.
C15_FinishOnceAfterSuccess ==
    /\ [](job.finish_calls <= 1)
    /\ [](job.finish_calls = 1 =>
            /\ pc = "done"
            /\ result.ok
            /\ ~AnyPassFailed
            /\ passes[Len(passes)].pass \in {"pass2", "nodes_only"}
            /\ passes[Len(passes)].ret = result
            /\ writer.st = "done"
            /\ sink.holder = "none"
            /\ result.v = sink.calls)
    /\ [](AnyPassFailed => job.finish_calls = 0)
    /\ [][job.finish_calls = 1 => (sink' = sink /\ job' = job)]_vars
    /\ [](job.finish_outcome = "err" => (job.st = "exited" /\ ~job.result.ok))
    /\ []((job.st = "exited" /\ job.result.ok) =>
            (job.finish_calls = 1 /\ job.finish_outcome = "ok"))

\* every row was written, finish returned an error and the job failed
C15_Witness ==
    /\ job.st = "exited"
    /\ result.ok
    /\ result.v = 3
    /\ Len(sink.rows) = 3
    /\ job.finish_calls = 1
    /\ job.finish_outcome = "err"
    /\ ~job.result.ok

\* ---- C16 ----
\* node stores a StandardProcessor can hold: empty ones of each kind
EmptyReaders ==
    {finalize(new_sparse).v, finalize(new_dense_temp(DenseMaxNodes)).v,
     finalize(new_memory).v}

\* the data blocks of the input files
DataBlocks ==
    {f[b].elements : <<f, b>> \in {x \in Files \X (1..4) : x[2] <= Len(x[1])}}

\* geometry configs with neither way nor relation geometry
NodeOnlyConfigs ==
    {GeometryConfig(n, Disabled(FALSE), cw, FALSE) :
        <<n, cw>> \in BOOLEAN \X ClosedWayModes}

\* C16: pass 1 (and then pass 2) runs exactly when the geometry config has
\* ways enabled or relation = true, and the nodes-only pass runs otherwise;
\* every batch the nodes-only pass builds, and for every block and every config
\* with neither way nor relation geometry the rows of
\* process_block_nodes_only_collect, are the rows process_block_collect
\* returns for that block and config, whatever node store it holds.
C16_Pass1IffNeeded ==
    /\ pass # "none" =>
          /\ pass \in {"pass1", "pass2"} <=>
                (input.config.way.enabled \/ input.config.relation)
          /\ pass = "nodes_only" <=>
                ~(input.config.way.enabled \/ input.config.relation)
    /\ \A i \in 1..Len(passes) :
          /\ passes[i].pass = "pass1" =>
                (i = 1 /\ (input.config.way.enabled \/ input.config.relation))
          /\ passes[i].pass = "pass2" => (i = 2 /\ passes[1].pass = "pass1")
          /\ passes[i].pass = "nodes_only" => (i = 1 /\ node_store.phase = "None")
    /\ pass = "nodes_only" =>
          \A w \in Workers :
              workers[w].st = "send" =>
                  \A s \in EmptyReaders :
                      workers[w].batch =
                          process_block_collect(input.file[workers[w].blob].elements,
                                                input.config, s, 1)
    /\ \A elements \in DataBlocks : \A config \in NodeOnlyConfigs :
          \A s \in EmptyReaders :
              process_block_nodes_only_collect(elements, config, 1)
                  = process_block_collect(elements, config, s, 1)

\* the nodes-only pass holds the batch of a block with a dense node, and no
\* node store was created
C16_Witness ==
    /\ pass = "nodes_only"
    /\ node_store.phase = "None"
    /\ \E w \in Workers :
          /\ workers[w].st = "send"
          /\ workers[w].batch # <<>>
          /\ \E i \in 1..Len(input.file[workers[w].blob].elements) :
                input.file[workers[w].blob].elements[i].t = "dense"

\* ---- C24 ----
\* the (id, lat, lon) of the node and dense-node elements of a block, in
\* block order
NodesOfBlock(elements) ==
    LET nodes == SelectSeq(elements, LAMBDA e : e.t \in {"node", "dense"})
    IN  [i \in 1..Len(nodes) |-> <<nodes[i].id, nodes[i].lat, nodes[i].lon>>]

\* the node sequence of a file from blob b on: blocks in file order, nodes in
\* block order
RECURSIVE FileNodes(_, _)
FileNodes(file, b) ==
    IF b > Len(file) THEN <<>>
    ELSE NodesOfBlock(file[b].elements) \o FileNodes(file, b + 1)

RECURSIVE Flatten(_)
Flatten(batches) ==
    IF batches = <<>> THEN <<>> ELSE Head(batches) \o Flatten(Tail(batches))

\* the nodes on their way to the store: put already, in the writer's current
\* batch, in the channel, in the decoder's hands
Pass1InFlight ==
    hist.put_seq \o writer.cur \o Flatten(chan.q)
        \o Flatten([w \in Workers |-> workers[w].batch])

NonDecreasing(nodes) ==
    \A i, j \in 1..Len(nodes) : i < j => nodes[i][1] <= nodes[j][1]

UnsortedIdsError ==
    /\ writer.st = "done"
    /\ ~writer.res.panicked
    /\ ~writer.res.r.ok
    /\ writer.res.r.err[Len(writer.res.r.err)] = "UnsortedIds"

\* C24: in pass 1 with the Sparse store one thread decodes; the nodes put so
\* far, followed by those of the writer's batch, of the channel and of the
\* decoder, are the first nodes of the input file in file order, so the put
\* calls are a prefix of the file's node sequence, and all of it once pass 1
\* has returned Ok; an input whose node ids are non-decreasing never gets the
\* unsorted-ids error.
C24_SparsePutsInFileOrder ==
    input.mode = "Sparse" =>
        /\ pass = "pass1" =>
              /\ \A w \in Workers : workers[w].st # "idle" => w = 1
              /\ writer.st \in {"recv", "batch"} =>
                    IsPrefix(Pass1InFlight, FileNodes(input.file, 1))
        /\ IsPrefix(hist.put_seq, FileNodes(input.file, 1))
        /\ (Len(passes) >= 1 /\ passes[1].pass = "pass1" /\ passes[1].ret.ok) =>
              hist.put_seq = FileNodes(input.file, 1)
        /\ NonDecreasing(FileNodes(input.file, 1)) =>
              (~UnsortedIdsError /\ (node_store.phase = "Writing" =>
                                        node_store.v.is_sorted))

\* pass 1 has put the three nodes of the two blocks of the sorted file into
\* the sparse store, in file order, and returned Ok(3)
C24_Witness ==
    /\ input.mode = "Sparse"
    /\ input.file = FileSorted
    /\ Len(passes) >= 1
    /\ passes[1].pass = "pass1"
    /\ passes[1].ret = Ok(3)
    /\ Len(hist.put_seq) = 3
    /\ hist.put_seq[1][1] = 0
    /\ hist.put_seq[3][1] = DenseMaxNodes

\* ---- C25 ----
\* the writer thread of a pass that writes to the sink is in its loop
SinkWriterRunning ==
    pass \in {"pass2", "nodes_only"} /\ writer.st \in {"recv", "batch"}

\* C25: the writer thread of run_pass holds the sink's mutex from before its
\* first add_feature until it terminates, and gives it up only by
\* terminating; every add_feature call is made by the writer while it holds
\* the mutex, one call at a time; no step of a decoder worker changes the
\* sink; main's finish happens only when nobody holds the mutex and the
\* writer has terminated.
C25_SinkHeldByWriter ==
    /\ [](SinkWriterRunning <=> sink.holder = "writer")
    /\ [][sink.holder = "writer" /\ sink'.holder # "writer" => writer'.st = "done"]_vars
    /\ [][sink.calls' # sink.calls \/ sink.rows' # sink.rows =>
            /\ sink.holder = "writer"
            /\ writer.st = "batch"
            /\ workers' = workers
            /\ job' = job
            /\ sink.calls' = sink.calls + 1]_vars
    /\ [][workers' # workers => sink' = sink]_vars
    /\ [][job.finish_calls' # job.finish_calls =>
            (sink.holder = "none" /\ writer.st = "done" /\ sink' = sink)]_vars

\* the writer holds the mutex and has written a row while a decoder worker
\* is still at work on a later block
C25_Witness ==
    /\ pass = "pass2"
    /\ sink.holder = "writer"
    /\ sink.calls >= 1
    /\ writer.st = "recv"
    /\ \E w \in Workers : workers[w].st = "send"
    /\ job.st = "running"

\* ---- C28 ----
\* the rows process_block returns for blob b of the input: those of
\* process_block_collect in pass 2, of process_block_nodes_only_collect in
\* the nodes-only pass; a header, unknown or undecodable blob has no block
BlockRows(p, b) ==
    IF input.file[b].kind # "OsmData" THEN <<>>
    ELSE IF p = "pass2"
         THEN process_block_collect(input.file[b].elements, input.config,
                                    node_store.v, 1)
         ELSE process_block_nodes_only_collect(input.file[b].elements,
                                               input.config, 1)

\* how many times row occurs in a sequence of rows
Occurrences(row, seq) == Cardinality({i \in 1..Len(seq) : seq[i] = row})

RECURSIVE AllBlockRows(_, _)
AllBlockRows(p, b) ==
    IF b > Len(input.file) THEN <<>>
    ELSE BlockRows(p, b) \o AllBlockRows(p, b + 1)

\* the rows handed over so far and not yet written: in the writer's current
\* batch and in the channel
RowsPending == writer.cur \o Flatten(chan.q)

\* C28: while a pass writes to the sink, no row is written or in the channel
\* more often than process_block produced it; when the pass has returned Ok,
\* every row occurs among the rows passed to add_feature exactly as often as
\* in the rows process_block returns for the data blocks of the input, the
\* channel is empty, and the rows number the returned count; header and
\* unknown blobs contribute no row.
C28_EveryRowWrittenOnce ==
    pass \in {"pass2", "nodes_only"} =>
        /\ \A row \in {sink.rows[i] : i \in 1..Len(sink.rows)}
                        \cup {RowsPending[i] : i \in 1..Len(RowsPending)} :
              Occurrences(row, sink.rows \o RowsPending)
                  <= Occurrences(row, AllBlockRows(pass, 1))
        /\ (Len(passes) >= 1 /\ passes[Len(passes)].pass = pass
                /\ passes[Len(passes)].ret.ok) =>
              /\ \A row \in {sink.rows[i] : i \in 1..Len(sink.rows)}
                              \cup {AllBlockRows(pass, 1)[i] :
                                        i \in 1..Len(AllBlockRows(pass, 1))} :
                    Occurrences(row, sink.rows) = Occurrences(row, AllBlockRows(pass, 1))
              /\ RowsPending = <<>>
              /\ sink.calls = Len(AllBlockRows(pass, 1))
              /\ passes[Len(passes)].ret.v = Len(AllBlockRows(pass, 1))
              /\ \A b \in 1..Len(input.file) :
                    input.file[b].kind \in {"OsmHeader", "Unknown"} =>
                        \A i \in 1..Len(sink.rows) : BlobOf(sink.rows[i]) # b

\* pass 2 over the file with an unknown blob returned Ok(3): the rows of its
\* two data blocks were written, the later block's two rows first
C28_Witness ==
    /\ pass = "pass2"
    /\ input.file = FileUnsorted
    /\ Len(passes) = 2
    /\ passes[2].ret = Ok(3)
    /\ Len(sink.rows) = 3
    /\ BlobOf(sink.rows[1]) = 3
    /\ BlobOf(sink.rows[3]) = 1
    /\ hist.woken = 0

\* ---- C29 ----
\* the node ids of blob b
BlockIds(file, b) == {NodesOfBlock(file[b].elements)[i][1] :
                        i \in 1..Len(NodesOfBlock(file[b].elements))}

NoIdInTwoBlocks(file) ==
    \A b1, b2 \in 1..Len(file) : b1 # b2 => BlockIds(file, b1) \cap BlockIds(file, b2) = {}

\* the store after the put of nodes[i], nodes[i+1], ... in this order
RECURSIVE PutInOrder(_, _, _)
PutInOrder(store, nodes, i) ==
    IF i > Len(nodes) THEN store
    ELSE PutInOrder(put(store, nodes[i][1], Lit(nodes[i][2]), Lit(nodes[i][3])).v,
                    nodes, i + 1)

\* the finalized store a single thread would build from the file's nodes
\* taken in file order
FileOrderStore ==
    finalize(PutInOrder(IF input.mode = "Dense" THEN new_dense_temp(DenseMaxNodes)
                        ELSE new_memory,
                        FileNodes(input.file, 1), 1)).v

\* C29: with the Dense or Memory store and no node id in two blocks, the
\* finalized store is the store the file's nodes give when put in file
\* order, whatever order the workers' batches reached the writer in, so it
\* is the same under every interleaving; and a pass 1 that returned Ok
\* returned the number of node and dense-node elements of the input, each of
\* which was put once.
C29_ParallelStoreDeterministic ==
    (input.mode \in {"Dense", "Memory"} /\ NoIdInTwoBlocks(input.file)) =>
        /\ node_store.phase = "Finalized" => node_store.v = FileOrderStore
        /\ (Len(passes) >= 1 /\ passes[1].pass = "pass1" /\ passes[1].ret.ok) =>
              /\ passes[1].ret.v = Len(FileNodes(input.file, 1))
              /\ Len(hist.put_seq) = Len(FileNodes(input.file, 1))
              /\ \A i \in 1..Len(hist.put_seq) :
                    Occurrences(hist.put_seq[i], hist.put_seq)
                        = Occurrences(hist.put_seq[i], FileNodes(input.file, 1))

\* the memory store was finalized after the node of the second block was put
\* before the two nodes of the first block
C29_Witness ==
    /\ input.mode = "Memory"
    /\ input.file = FileSorted
    /\ node_store.phase = "Finalized"
    /\ passes[1].ret = Ok(3)
    /\ hist.put_seq[1][1] = DenseMaxNodes
    /\ hist.put_seq[2][1] = 0
    /\ node_store.v = FileOrderStore

(***************************************************************************)
(* Properties of the sinks, under SinkSpec.                                *)
(***************************************************************************)
\* the features of rows, one separator between each adjacent pair
RECURSIVE Separated(_, _)
Separated(added, i) ==
    IF i > Len(added) THEN <<>>
    ELSE (IF i > 1 THEN <<",">> ELSE <<>>) \o <<FeatureJson(added[i])>>
            \o Separated(added, i + 1)

\* C19: a GeoJsonSink that was constructed, given n >= 0 rows by successful
\* add_feature calls and finished holds the preamble, the n features with one
\* separator between each adjacent pair and none before the first or after
\* the last, and the closing brackets; the file parses as one
\* FeatureCollection with these n features.
C19_GeoJsonWellFormed ==
    (file_sink.st = "finished" /\ file_sink.format = "geojson") =>
        LET n == Len(file_sink.added)
            file == file_sink.sink.file
        IN  /\ file = Preamble \o Separated(file_sink.added, 1) \o Closing
            /\ Len(file) = Len(Preamble) + n + (IF n > 1 THEN n - 1 ELSE 0) + Len(Closing)
            /\ file[Len(Preamble) + 1] # ","
            /\ file[Len(file) - Len(Closing)] # ","
            /\ ParseFeatureCollection(file).ok
            /\ ParseFeatureCollection(file).v =
                    [i \in 1..n |-> FeatureJson(file_sink.added[i])]

\* a finished file with three features and two separators
C19_Witness ==
    /\ file_sink.st = "finished"
    /\ file_sink.format = "geojson"
    /\ file_sink.added = <<RowBare, RowColumns, RowCollision>>
    /\ Len(ParseFeatureCollection(file_sink.sink.file).v) = 3

\* C20: the schema of a GeoParquetSink that init_sink built is the geometry
\* field, then one field per declared column in the order of the table
\* config, then the properties field.
C20_SchemaInDeclaredOrder ==
    (file_sink.st # "config" /\ file_sink.format = "geoparquet") =>
        LET schema == file_sink.sink.schema
            n == Len(file_sink.declared)
        IN  /\ Len(schema) = n + 2
            /\ schema[1].name = "geometry"
            /\ \A i \in 1..n : schema[i + 1].name = file_sink.declared[i]
            /\ schema[n + 2].name = "properties"

\* the property maps a feature of the files can hold: sets of members, one
\* per key
PropertyMaps ==
    {m \in SUBSET UNION {properties(row) \cup properties_ColumnsWin(row) : row \in SinkRows} :
        \A a, b \in m : a[1] = b[1] => a = b}

\* the properties of a feature text, as a JSON reader returns them
PropertiesOf(text) ==
    CHOOSE m \in PropertyMaps :
        \E row \in SinkRows : FeatureText(row.geometry, m) = text

\* C23: in a GeoJSON or GeoJSONL file the properties of the feature written
\* for a row hold every extras member of the row as it is, every column whose
\* name is no extras key with the JSON value of the column, and nothing else:
\* where a column and an extras key share a name the extras value is written.
C23_ExtrasTakePrecedence ==
    (file_sink.st \in {"open", "finished"} /\ file_sink.format \in {"geojson", "geojsonl"}) =>
        LET features == SelectSeq(file_sink.sink.file, IsValue)
        IN  /\ Len(features) = Len(file_sink.added)
            /\ \A i \in 1..Len(features) :
                  LET row == file_sink.added[i]
                      props == PropertiesOf(features[i])
                  IN  /\ \A e \in row.extras : e \in props
                      /\ \A c \in row.columns :
                            (\A e \in row.extras : e[1] # c[1]) =>
                                <<c[1], IF c[2][1] = "String"
                                        THEN "\"" \o c[2][2] \o "\"" ELSE c[2][2]>> \in props
                      /\ \A m \in props :
                            \/ \E e \in row.extras : e[1] = m[1]
                            \/ \E c \in row.columns : c[1] = m[1]

\* a GeoJSONL file holds the feature of a row whose column name collides with
\* an extras key, and the feature carries the extras value
C23_Witness ==
    /\ file_sink.st = "finished"
    /\ file_sink.format = "geojsonl"
    /\ file_sink.added = <<RowAll, RowCollision>>
    /\ <<"name", "\"FromExtras\"">> \in PropertiesOf(file_sink.sink.file[1])
    /\ <<"lanes", "2">> \in PropertiesOf(file_sink.sink.file[1])

\* the rows of the record batches written so far, in order
RECURSIVE WrittenRows(_, _)
WrittenRows(written, i) ==
    IF i > Len(written) THEN <<>>
    ELSE written[i].geometry \o WrittenRows(written, i + 1)

C21_ModeSelection ==
    /\ cache_mode.st = "resolved" =>
        /\ cache_mode.resolved \in Modes
        /\ cache_mode.requested # "Auto" => cache_mode.resolved = cache_mode.requested
        /\ (cache_mode.requested = "Auto" /\ cache_mode.metadata.ok) =>
              cache_mode.resolved =
                  IF cache_mode.metadata.v[1] >= 5 THEN "Dense" ELSE "Sparse"
    /\ (cache_mode.st \in {"parsed", "rejected", "resolved"}
          /\ cache_mode.name \in {<<109, 109, 97, 112>>, <<77, 77, 65, 80>>}) =>
        /\ cache_mode.st # "rejected"
        /\ cache_mode.requested = "Dense"

\* an Auto request on an input of exactly 5 GiB has been resolved
C21_Witness ==
    /\ cache_mode.st = "resolved"
    /\ cache_mode.requested = "Auto"
    /\ cache_mode.metadata = Ok(<<5, 0>>)
    /\ cache_mode.resolved = "Dense"

(***************************************************************************)
(* Properties of the filter DSL.                                           *)
(***************************************************************************)
\* C22: for filters e1 and e2 that parse, the filter e1 | e2 parses and
\* matches a tag set exactly when e1 matches it or e2 matches it; with e2 of
\* the form a & b this is also the precedence of & over |.
C22_OrIsDisjunction ==
    (dsl.st = "matched" /\ dsl.left.ok /\ dsl.right.ok) =>
        /\ dsl.whole.ok
        /\ dsl.matches.whole = (dsl.matches.left \/ dsl.matches.right)

\* C30: simplify keeps the meaning of a filter: the AST and its simplified
\* form give the same verdict on every tag set.
C30_SimplifyPreservesMeaning ==
    dsl.st = "compared" => dsl.matches.simplified = dsl.matches.ast

(***************************************************************************)
(* Properties of ProgressCounter.                                          *)
(***************************************************************************)
\* C26: the interval is at least 1; a call of inc that has returned printed
\* exactly when the count it fetched, divided by the interval, is below that
\* count plus delta divided by the interval; the count is the sum of the
\* deltas of all calls whatever their interleaving; finish prints that sum
\* last.
C26_ProgressCounter ==
    progress.self.some =>
        LET self == progress.self.v
        IN  /\ self.interval >= 1
            /\ self.interval = (IF progress.arg = 0 THEN 1 ELSE progress.arg)
            /\ self.count = progress.sum
            /\ \A t \in Incrementers :
                  LET c == progress.callers[t]
                  IN  (c.pc = "idle" /\ c.calls > 0) =>
                        /\ c.printed <=>
                              \E k \in 1..(c.prev + c.delta) :
                                  /\ k % self.interval = 0
                                  /\ c.prev < k
                                  /\ k <= c.prev + c.delta
                        /\ c.printed => \E i \in 1..Len(self.out) :
                                            self.out[i] = c.prev + c.delta
            /\ progress.st = "finished" => self.out[Len(self.out)] = progress.sum

\* both threads have made all their calls, one of them did not print, and
\* finish has printed the sum
C26_Witness ==
    /\ progress.st = "finished"
    /\ \A t \in Incrementers : progress.callers[t].calls = MaxIncs
    /\ \E t \in Incrementers : ~progress.callers[t].printed
    /\ \E t \in Incrementers : progress.callers[t].printed
    /\ progress.self.v.interval = 4
    /\ progress.self.v.out[Len(progress.self.v.out)] = progress.sum

====
